---- MODULE Spec2Model ----
(***************************************************************************)
(* ColoVision: the client (Router, AuthService, DetectionPage) and the     *)
(* inference service's statistics, validation and pipeline.                *)
(*                                                                         *)
(* Percentages are exact rationals num/den (in percent).  A value with two *)
(* decimals is an integer number of hundredths over PctScale.  Distances   *)
(* are integers in thousandths of a pixel.                                 *)
(***************************************************************************)
EXTENDS Integers, Sequences, FiniteSets, TLC

VARIABLES
  \* ---- risk classification (DetectionPage, both paths)
  cancerPercentage,   \* the classified value, in hundredths of a percent
  riskLevel,          \* the tier assigned to it, "none" before any call
  riskPath,           \* "api" | "mock" | "none": which expression ran
  prevPercentage,     \* the value classified by the call before
  prevRiskLevel       \* and its tier

VARIABLES
  \* ---- Router, AuthService, TwoFactorService
  currentRoute,       \* Router state currentRoute
  user,               \* Router state user: a UserSession or NoUser
  isLoading,          \* Router state isLoading
  rendered,           \* what the Router returned for the current state; "pending"
                      \* while a state change has not been rendered yet
  pendingRender,      \* a state change awaits a run of the Router function
  history,            \* the browser's session history (paths)
  histIdx,            \* the current entry of history
  sessionStore,       \* localStorage["colovision-session"]: a UserSession or NoUser
  setupDone,          \* the emails e with localStorage["user-e"] = {hasSetup2FA: true}
  logoutPending       \* AuthService.logout() awaits signOut

VARIABLES
  \* ---- DetectionPage: the analysis run
  images,                  \* DetectionPage state images: records [id, status]
  isProcessing,            \* DetectionPage state
  analysisResults,         \* DetectionPage state
  processingProgress,      \* DetectionPage state, in percent (rounded down)
  currentProcessingImage,  \* DetectionPage state: an image id, 0 for ''
  apiAvailable,            \* DetectionPage state: "null" | "true" | "false"
  pc,                      \* where the processImages call stands
  readyImages,             \* processImages local: the images it will attempt
  idx,                     \* processImages local: the loop index i, from 1
  results,                 \* processImages local
  useAPI,                  \* processImages local
  apiResult,               \* processImages local: what segmentImage returned
  attemptLog               \* history: per attempted image its id, whether its
                           \* request failed, whether its attempt failed at all,
                           \* and how the loop left it: "pending" | "result" |
                           \* "error" | "never"

VARIABLES
  \* ---- the service's statistics and the client's reading of them
  mask,               \* the binary mask, row by row: a sequence of 0 and 1
  statistics,         \* the statistics object of the response, NoStatistics before
  serviceRisk,        \* the tier the service derives, "none" before
  clientRisk,         \* the tier processImages derives from the response
  statPc              \* "mask" | "reported" | "classified"

VARIABLES
  \* ---- createHeatmapFromOverlay
  width,              \* canvas.width
  height,             \* canvas.height
  overlayData,        \* the overlay's pixels: index y * width + x to <<r, g, b>>
  distanceMap,        \* index y * width + x to a distance, in thousandths
  tintMap,            \* index y * width + x to the gradient colour and alpha blended in
  heatPc              \* "filled" | "marked" | "forward" | "backward" | "blended"

VARIABLES
  \* ---- the inference service, one pipeline per request
  reqUpload,          \* request to the upload it carries
  reqStage,           \* request to its position in the pipeline
  stageLog,           \* request to the stage events so far, <<"start" | "end", stage>>
  response            \* request to the response returned, NoResponse before

VARIABLES
  \* ---- TwoFactorService and AuthService.login called directly
  codeArg,            \* the code handed to verifyCode, a sequence of characters
  setupData,          \* the emails e with a localStorage["2fa-setup-e"] entry
  lastVerify,         \* the last verifyCode call of codeArg and what it returned
  lastLogin,          \* the last AuthService.login call and what it returned
  setupVerified       \* history: emails whose setup verification succeeded, not disabled since

VARIABLES
  \* ---- ImageUpload
  uploadImages,       \* ImageUpload's images: a sequence of [id, status, progress]
  timers,             \* image id to its progress interval: [progress, cleared,
                      \* sawResults], sawResults being analysisResults.length > 0
                      \* in the handleImagesChange the interval's closure holds
  nextId,             \* the id the next accepted file gets
  resetKey,           \* DetectionPage's resetKey
  resetIds,           \* history: the ids handed out before the last reset
  lastEvent           \* history: what ImageUpload or the Reset button did last

VARIABLES
  \* ---- SegmentationService.getRecommendations
  recRiskLevel,       \* the riskLevel argument
  recOutcome,         \* what the request to /get-recommendations comes to
  recResult           \* what the call settled with, NoRecResult before

\* one pixel on its way from the segmentation service's overlay step to the
\* client's heatmap
VARIABLES
  origPixel,          \* <<r, g, b>> of the original image
  maskCell,           \* 0 | 1: the binary mask at the pixel
  overlayPixel,       \* <<r, g, b>> of the overlay, or <<>> before it is made
  seed,               \* TRUE | FALSE | "none": the heatmap's isPolypRegion
  ovlPc               \* "image" | "overlay" | "classified"

VARIABLES
  \* ---- AuthService on its localStorage item
  sessionItem,        \* localStorage["colovision-session"]: NoItem or a text
  lastWrite,          \* history: the last write of the item, by whom and what
  lastGet,            \* history: the last getCurrentSession call, NoGet after a write
  lastAuthCall        \* history: the last signup, login or googleAuth call

riskVars == <<cancerPercentage, riskLevel, riskPath, prevPercentage, prevRiskLevel>>

authVars == <<currentRoute, user, isLoading, rendered, pendingRender, history,
              histIdx, sessionStore, setupDone, logoutPending>>

procVars == <<images, isProcessing, analysisResults, processingProgress,
              currentProcessingImage, apiAvailable, pc, readyImages, idx, results,
              useAPI, apiResult, attemptLog>>

statVars == <<mask, statistics, serviceRisk, clientRisk, statPc>>

heatVars == <<width, height, overlayData, distanceMap, tintMap, heatPc>>

srvVars == <<reqUpload, reqStage, stageLog, response>>

tfVars == <<codeArg, setupData, lastVerify, lastLogin, setupVerified>>

uploadVars == <<uploadImages, timers, nextId, resetKey, resetIds, lastEvent>>

recVars == <<recRiskLevel, recOutcome, recResult>>

ovlVars == <<origPixel, maskCell, overlayPixel, seed, ovlPc>>

itemVars == <<sessionItem, lastWrite, lastGet, lastAuthCall>>

vars == <<riskVars, authVars, procVars, statVars, heatVars, srvVars, tfVars, uploadVars, recVars, ovlVars, itemVars>>

\* what the actions of one component leave alone
nonRiskVars == <<authVars, procVars, statVars, heatVars, srvVars, tfVars, uploadVars, recVars, ovlVars, itemVars>>
nonAuthVars == <<riskVars, procVars, statVars, heatVars, srvVars, tfVars, uploadVars, recVars, ovlVars, itemVars>>
nonProcVars == <<riskVars, authVars, statVars, heatVars, srvVars, tfVars, uploadVars, recVars, ovlVars, itemVars>>
nonStatVars == <<riskVars, authVars, procVars, heatVars, srvVars, tfVars, uploadVars, recVars, ovlVars, itemVars>>
nonHeatVars == <<riskVars, authVars, procVars, statVars, srvVars, tfVars, uploadVars, recVars, ovlVars, itemVars>>
\* TwoFactorService shares localStorage with AuthService: setupDone and
\* sessionStore are written by its operations, the rest is left alone
nonTfVars == <<riskVars, procVars, statVars, heatVars, srvVars, uploadVars,
               currentRoute, user, isLoading, rendered, pendingRender, history,
               histIdx, logoutPending, recVars, ovlVars, itemVars>>
\* ImageUpload notifies DetectionPage: images and analysisResults are written
\* by its operations, and handleReset writes the run's state
nonUploadVars == <<riskVars, authVars, statVars, heatVars, srvVars, tfVars,
                   apiAvailable, pc, readyImages, idx, results, useAPI, apiResult,
                   attemptLog, recVars, ovlVars, itemVars>>
nonRecVars == <<riskVars, authVars, procVars, statVars, heatVars, srvVars, tfVars, uploadVars, ovlVars, itemVars>>
nonOvlVars == <<riskVars, authVars, procVars, statVars, heatVars, srvVars, tfVars, uploadVars, recVars, itemVars>>
nonItemVars == <<riskVars, authVars, procVars, statVars, heatVars, srvVars, tfVars, uploadVars, recVars, ovlVars>>
nonSrvVars == <<riskVars, authVars, procVars, statVars, heatVars, tfVars, uploadVars, recVars, ovlVars, itemVars>>

----------------------------------------------------------------------------
\* Bounds

\* entries the session history keeps; the oldest is dropped beyond it
MaxHist == 3

\* images in DetectionPage's list when an analysis starts
MaxImages == 3

\* masks of up to MaxSmallMask cells are drawn with every content
MaxSmallMask == 3

\* larger masks, up to MaxMaskCells cells, are drawn with their first cells set,
\* up to MaxOnes of them
MaxMaskCells == 200
MaxOnes == 2

\* recommendation lists of up to MaxRecommendations entries in a response
MaxRecommendations == 2

\* files accepted by ImageUpload over a session, files per selection, resets
MaxUploadIds == 3
MaxTimerIds == 2
MaxFiles == 2
MaxResets == 2

\* verification codes of up to MaxCodeLen characters
MaxCodeLen == 7

\* requests the service handles side by side
MaxRequests == 2

\* overlays of up to MaxDim x MaxDim pixels
MaxDim == 3

\* percentages are drawn every 0.05 % up to MaxPctSteps twentieths (2.10 %)
MaxPctSteps == 42

----------------------------------------------------------------------------
\* Risk classification

\* hundredths per percent: a two-decimal percentage p is the rational p / PctScale
PctScale == 100

\* the percentages drawn, in hundredths of a percent
PctValues == {5 * k : k \in 0..MaxPctSteps}

NoStatistics == [present |-> FALSE, cancer_percentage |-> 0]

\* the four tiers in increasing order
TierRank(level) ==
  CASE level = "Safe" -> 0
    [] level = "Low Risk" -> 1
    [] level = "Medium Risk" -> 2
    [] level = "High Risk" -> 3

\* a mutant: the boundaries compared with >= (the boundary joins the upper tier)
RiskLevelInclusive(num, den) ==
  IF num >= 2 * den THEN "High Risk"
  ELSE IF 2 * num >= den THEN "Medium Risk"
  ELSE IF 10 * num >= den THEN "Low Risk"
  ELSE "Safe"

\* cancerPercentage > 2.0 ? 'High Risk' : cancerPercentage > 0.5 ? 'Medium Risk' :
\* cancerPercentage > 0.1 ? 'Low Risk' : 'Safe', for cancerPercentage = num / den
RiskLevel(num, den) ==
  IF num > 2 * den THEN "High Risk"
  ELSE IF 2 * num > den THEN "Medium Risk"
  ELSE IF 10 * num > den THEN "Low Risk"
  ELSE "Safe"

\* apiResult.statistics?.cancer_percentage || 0
CancerPercentageOf(stats) ==
  IF stats.present /\ stats.cancer_percentage # 0
  THEN stats.cancer_percentage
  ELSE 0

RiskInit ==
  /\ cancerPercentage = 0
  /\ riskLevel = "none"
  /\ riskPath = "none"
  /\ prevPercentage = 0
  /\ prevRiskLevel = "none"

\* processImages, API path: the tier of the reported cancer_percentage
ClassifyApi ==
  \E stats \in {NoStatistics} \cup
        {[present |-> TRUE, cancer_percentage |-> p] : p \in PctValues} :
    /\ prevPercentage' = cancerPercentage
    /\ prevRiskLevel' = riskLevel
    /\ cancerPercentage' = CancerPercentageOf(stats)
    /\ riskLevel' = RiskLevel(cancerPercentage', PctScale)
    /\ riskPath' = "api"
    /\ UNCHANGED nonRiskVars

\* simulateModelInference: the tier of Math.random() * 30
ClassifyMock ==
  \E p \in PctValues :
    /\ prevPercentage' = cancerPercentage
    /\ prevRiskLevel' = riskLevel
    /\ cancerPercentage' = p
    /\ riskLevel' = RiskLevel(p, PctScale)
    /\ riskPath' = "mock"
    /\ UNCHANGED nonRiskVars

RiskNext == ClassifyApi \/ ClassifyMock


----------------------------------------------------------------------------
\* Router, AuthService, TwoFactorService, the pages' handlers

Emails == {"ann@x.org", "bob@x.org"}

\* the email Firebase reports for the Google account
GoogleEmail == "bob@x.org"

\* user === null, and an absent localStorage entry
NoUser == [null |-> TRUE]

UserSession(email, needsSetup, needsVerification) ==
  [email |-> email, isAuthenticated |-> TRUE,
   needs2FASetup |-> needsSetup, needs2FAVerification |-> needsVerification]

\* user?.isAuthenticated
IsAuthenticated(u) == u # NoUser /\ u.isAuthenticated

\* Router's defaultRoute parameter
defaultRoute == "/"

\* the route table of routes/index.tsx
routes ==
  [p \in {"/", "/login", "/signup", "/2fa-setup", "/2fa-verify", "/detection"} |->
    CASE p = "/" ->
           [component |-> "LandingPage", requiresAuth |-> FALSE, isPublic |-> TRUE, redirectTo |-> ""]
      [] p = "/login" ->
           [component |-> "LoginPage", requiresAuth |-> FALSE, isPublic |-> TRUE, redirectTo |-> ""]
      [] p = "/signup" ->
           [component |-> "SignupPage", requiresAuth |-> FALSE, isPublic |-> TRUE, redirectTo |-> ""]
      [] p = "/2fa-setup" ->
           [component |-> "TwoFactorSetupPage", requiresAuth |-> TRUE, isPublic |-> FALSE, redirectTo |-> "/login"]
      [] p = "/2fa-verify" ->
           [component |-> "TwoFactorVerifyPage", requiresAuth |-> TRUE, isPublic |-> FALSE, redirectTo |-> "/login"]
      [] p = "/detection" ->
           [component |-> "DetectionPage", requiresAuth |-> TRUE, isPublic |-> FALSE, redirectTo |-> "/login"]]

\* the paths a URL can name: the routes and a path no route has
Paths == DOMAIN routes \cup {"/other"}

ProtectedComponents == {"TwoFactorSetupPage", "TwoFactorVerifyPage", "DetectionPage"}

\* window.location.pathname to a route (Router.tsx:56-58 and :93-94)
RouteOfPath(path) == IF path # "/" THEN path ELSE defaultRoute

\* window.history.pushState: entries after the current one are dropped, the new
\* one is appended; the browser keeps MaxHist entries
PushState(h, i, path) ==
  LET cut == SubSeq(h, 1, i) \o <<path>>
  IN IF Len(cut) > MaxHist
     THEN [h |-> SubSeq(cut, 2, Len(cut)), i |-> MaxHist]
     ELSE [h |-> cut, i |-> Len(cut)]

\* AuthService.getCurrentSession
getCurrentSession == sessionStore

\* TwoFactorService.isSetupRequired
isSetupRequired(email) == email \notin setupDone

\* a mutant: the Router without the requiresAuth guard
RouterPassNoAuthGuard(route, u, loading) ==
  IF route \notin DOMAIN routes
  THEN IF route # defaultRoute
       THEN [out |-> "null", to |-> defaultRoute]
       ELSE [out |-> "RouteNotFound", to |-> route]
  ELSE IF routes[route].isPublic /\ IsAuthenticated(u)
  THEN [out |-> "null", to |-> "/detection"]
  ELSE IF loading
  THEN [out |-> "Loading", to |-> route]
  ELSE [out |-> routes[route].component, to |-> route]

\* a Router without the redirect of authenticated users off public routes
RouterPassNoPublicRedirect(route, u, loading) ==
  IF route \notin DOMAIN routes
  THEN IF route # defaultRoute
       THEN [out |-> "null", to |-> defaultRoute]
       ELSE [out |-> "RouteNotFound", to |-> route]
  ELSE IF routes[route].requiresAuth /\ ~IsAuthenticated(u) /\ routes[route].redirectTo # ""
  THEN [out |-> "null", to |-> routes[route].redirectTo]
  ELSE IF loading
  THEN [out |-> "Loading", to |-> route]
  ELSE IF routes[route].component = "DetectionPage" /\ ~IsAuthenticated(u)
  THEN [out |-> "null", to |-> "/login"]
  ELSE IF routes[route].component \in {"TwoFactorSetupPage", "TwoFactorVerifyPage"} /\ u = NoUser
  THEN [out |-> routes[route].component, to |-> "/login"]
  ELSE [out |-> routes[route].component, to |-> route]

\* one run of the Router function body: what it returns (out) and the route it
\* leaves in currentRoute (to), which differs from route when it called navigate.
\* The last two branches are the pages' own redirects: DetectionPage's guard and
\* TwoFactorAuth's effect.
RouterPass(route, u, loading) ==
  IF route \notin DOMAIN routes
  THEN IF route # defaultRoute
       THEN [out |-> "null", to |-> defaultRoute]
       ELSE [out |-> "RouteNotFound", to |-> route]
  ELSE IF routes[route].requiresAuth /\ ~IsAuthenticated(u) /\ routes[route].redirectTo # ""
  THEN [out |-> "null", to |-> routes[route].redirectTo]
  ELSE IF routes[route].isPublic /\ IsAuthenticated(u)
  THEN [out |-> "null", to |-> "/detection"]
  ELSE IF loading
  THEN [out |-> "Loading", to |-> route]
  ELSE IF routes[route].component = "DetectionPage" /\ ~IsAuthenticated(u)
  THEN [out |-> "null", to |-> "/login"]
  ELSE IF routes[route].component \in {"TwoFactorSetupPage", "TwoFactorVerifyPage"} /\ u = NoUser
  THEN [out |-> routes[route].component, to |-> "/login"]
  ELSE [out |-> routes[route].component, to |-> route]

\* the state a handler leaves: new route and user, a history entry pushed when it
\* navigated, and a render pending
Navigated(route, u) ==
  LET ps == PushState(history, histIdx, route)
  IN /\ currentRoute' = route
     /\ user' = u
     /\ history' = ps.h
     /\ histIdx' = ps.i
     /\ rendered' = "pending"
     /\ pendingRender' = TRUE

\* the page is interactive: rendered, nothing pending
Shown(component) == ~pendingRender /\ ~isLoading /\ rendered = component

AuthInit ==
  /\ currentRoute \in {RouteOfPath(p) : p \in Paths}
  /\ user = NoUser
  /\ isLoading = TRUE
  /\ rendered = "pending"
  /\ pendingRender = TRUE
  /\ history = <<currentRoute>>
  /\ histIdx = 1
  /\ sessionStore = NoUser
  /\ setupDone = {}
  /\ logoutPending = FALSE

\* React runs the Router function for the changed state
Render ==
  /\ pendingRender
  /\ LET r == RouterPass(currentRoute, user, isLoading)
         ps == PushState(history, histIdx, r.to)
     IN /\ rendered' = r.out
        /\ currentRoute' = r.to
        /\ pendingRender' = (r.to # currentRoute)
        /\ history' = IF r.to # currentRoute THEN ps.h ELSE history
        /\ histIdx' = IF r.to # currentRoute THEN ps.i ELSE histIdx
  /\ UNCHANGED <<user, isLoading, sessionStore, setupDone, logoutPending>>
  /\ UNCHANGED nonAuthVars

\* Router's mount effect: the saved session becomes the user
MountEffect ==
  /\ ~pendingRender /\ isLoading
  /\ user' = getCurrentSession
  /\ isLoading' = FALSE
  /\ rendered' = "pending"
  /\ pendingRender' = TRUE
  /\ UNCHANGED <<currentRoute, history, histIdx, sessionStore, setupDone, logoutPending>>
  /\ UNCHANGED nonAuthVars

\* the document is loaded anew: React state starts over, localStorage stays, a
\* pending logout continuation is gone with the old document
LoadDocument(h, i) ==
  /\ currentRoute' = RouteOfPath(h[i])
  /\ history' = h
  /\ histIdx' = i
  /\ user' = NoUser
  /\ isLoading' = TRUE
  /\ rendered' = "pending"
  /\ pendingRender' = TRUE
  /\ logoutPending' = FALSE
  /\ UNCHANGED <<sessionStore, setupDone>>

\* the user reloads the page
Reload ==
  /\ ~pendingRender /\ ~isLoading
  /\ LoadDocument(history, histIdx)
  /\ UNCHANGED nonAuthVars

\* the user enters a URL of the application in the address bar
OpenUrl ==
  /\ ~pendingRender /\ ~isLoading
  /\ \E path \in Paths :
       LET ps == PushState(history, histIdx, path)
       IN LoadDocument(ps.h, ps.i)
  /\ UNCHANGED nonAuthVars

\* browser back / forward: handlePopState
PopState ==
  /\ ~pendingRender /\ ~isLoading
  /\ \E i \in {histIdx - 1, histIdx + 1} :
       /\ i \in 1..Len(history)
       /\ histIdx' = i
       /\ currentRoute' = RouteOfPath(history[i])
       /\ rendered' = "pending"
       /\ pendingRender' = TRUE
  /\ UNCHANGED <<user, isLoading, history, sessionStore, setupDone, logoutPending>>
  /\ UNCHANGED nonAuthVars

\* the navigation buttons of the public pages
ClickNavigate ==
  /\ \E c \in {"LandingPage", "LoginPage", "SignupPage"} : Shown(c)
  /\ \E path \in {"/", "/login", "/signup"} : Navigated(path, user)
  /\ UNCHANGED <<isLoading, sessionStore, setupDone, logoutPending>>
  /\ UNCHANGED nonAuthVars

\* a session built with needs2FAVerification always set
LoginSessionAlwaysVerify(email, isSignup) ==
  LET needsSetup == IF isSignup THEN TRUE ELSE isSetupRequired(email)
  IN UserSession(email, needsSetup, TRUE)

\* AuthService.login / googleAuth after Firebase accepted: the session returned
LoginSession(email, isSignup) ==
  LET needsSetup == IF isSignup THEN TRUE ELSE isSetupRequired(email)
  IN UserSession(email, needsSetup, ~needsSetup)

\* LoginPage's navigation by the session's 2FA flags
RouteAfterLogin(session) ==
  IF session.needs2FASetup THEN "/2fa-setup"
  ELSE IF session.needs2FAVerification THEN "/2fa-verify"
  ELSE "/detection"

\* LoginPage.handleSubmit and handleGoogleSignIn
Login ==
  /\ Shown("LoginPage")
  /\ \E email \in Emails, google \in BOOLEAN, firebaseOk \in BOOLEAN :
       IF firebaseOk
       THEN LET session == LoginSession(IF google THEN GoogleEmail ELSE email, FALSE)
            IN /\ sessionStore' = session
               /\ Navigated(RouteAfterLogin(session), session)
       ELSE UNCHANGED <<currentRoute, user, history, histIdx, rendered, pendingRender, sessionStore>>
  /\ UNCHANGED <<isLoading, setupDone, logoutPending>>
  /\ UNCHANGED nonAuthVars

\* AuthService.signup: "mismatch" | "rejected" | "ok"
SignupOutcome(password, confirmPassword, firebaseOk) ==
  IF password # confirmPassword THEN "mismatch"
  ELSE IF firebaseOk THEN "ok" ELSE "rejected"

\* SignupPage.handleSubmit calls AuthService.signup({ email, password }): the
\* credentials carry no confirmPassword
SignupSubmit ==
  /\ Shown("SignupPage")
  /\ \E email \in Emails, firebaseOk \in BOOLEAN :
       IF SignupOutcome("password", "undefined", firebaseOk) = "ok"
       THEN LET session == UserSession(email, TRUE, FALSE)
            IN /\ sessionStore' = session
               /\ Navigated("/2fa-setup", session)
       ELSE UNCHANGED <<currentRoute, user, history, histIdx, rendered, pendingRender, sessionStore>>
  /\ UNCHANGED <<isLoading, setupDone, logoutPending>>
  /\ UNCHANGED nonAuthVars

\* SignupPage.handleGoogleSignUp
GoogleSignUp ==
  /\ Shown("SignupPage")
  /\ \E firebaseOk \in BOOLEAN :
       IF firebaseOk
       THEN LET session == LoginSession(GoogleEmail, TRUE)
            IN /\ sessionStore' = session
               /\ Navigated("/2fa-setup", session)
       ELSE UNCHANGED <<currentRoute, user, history, histIdx, rendered, pendingRender, sessionStore>>
  /\ UNCHANGED <<isLoading, setupDone, logoutPending>>
  /\ UNCHANGED nonAuthVars

\* TwoFactorService.verifyCode's isValid: the code is six decimal digits
CodeIsValid(code) == code = "six digits"

\* TwoFactorAuth.handleSubmit, on /2fa-setup (isSetup) and on /2fa-verify
TwoFactorSubmit ==
  /\ \E isSetup \in BOOLEAN, code \in {"six digits", "other"} :
       /\ Shown(IF isSetup THEN "TwoFactorSetupPage" ELSE "TwoFactorVerifyPage")
       /\ IF user = NoUser
          THEN Navigated("/login", user) /\ UNCHANGED <<sessionStore, setupDone>>
          ELSE IF CodeIsValid(code)
          THEN LET authenticatedSession ==
                     [user EXCEPT !.isAuthenticated = TRUE, !.needs2FASetup = FALSE,
                                  !.needs2FAVerification = FALSE]
               IN /\ setupDone' = IF isSetup THEN setupDone \cup {user.email} ELSE setupDone
                  /\ sessionStore' = authenticatedSession
                  /\ Navigated("/detection", authenticatedSession)
          ELSE UNCHANGED <<currentRoute, user, history, histIdx, rendered, pendingRender,
                           sessionStore, setupDone>>
  /\ UNCHANGED <<isLoading, logoutPending>>
  /\ UNCHANGED nonAuthVars

\* DetectionPage.handleLogout: AuthService.logout() is started and not awaited
Logout ==
  /\ Shown("DetectionPage")
  /\ logoutPending' = TRUE
  /\ Navigated("/", NoUser)
  /\ UNCHANGED <<isLoading, sessionStore, setupDone>>
  /\ UNCHANGED nonAuthVars

\* AuthService.logout resumes after signOut: clearSession when it resolved (a
\* continuation runs between renders, never inside one)
LogoutSettle ==
  /\ logoutPending /\ ~pendingRender
  /\ \E signOutOk \in BOOLEAN :
       sessionStore' = IF signOutOk THEN NoUser ELSE sessionStore
  /\ logoutPending' = FALSE
  /\ UNCHANGED <<currentRoute, user, isLoading, rendered, pendingRender, history,
                 histIdx, setupDone>>
  /\ UNCHANGED nonAuthVars

AuthNext ==
  \/ Render \/ MountEffect \/ Reload \/ OpenUrl \/ PopState \/ ClickNavigate
  \/ Login \/ SignupSubmit \/ GoogleSignUp \/ TwoFactorSubmit \/ Logout \/ LogoutSettle

----------------------------------------------------------------------------
\* DetectionPage.processImages, SegmentationService.segmentImage

ImageIds == 1..MaxImages

\* the lists ImageUpload hands to DetectionPage: distinct ids, each image still
\* uploading or ready
UploadedLists ==
  UNION {[1..n -> {"uploading", "ready"}] : n \in 0..MaxImages}

ImagesOf(statuses) == [k \in DOMAIN statuses |-> [id |-> k, status |-> statuses[k]]]

\* images.filter(img => img.status === 'ready')
RECURSIVE ReadyOf(_)
ReadyOf(list) ==
  IF list = <<>> THEN <<>>
  ELSE IF Head(list).status = "ready"
       THEN <<Head(list)>> \o ReadyOf(Tail(list))
       ELSE ReadyOf(Tail(list))

\* prev.map(img => img.id === id ? { ...img, status } : img)
SetStatus(list, id, status) ==
  [k \in DOMAIN list |-> IF list[k].id = id THEN [list[k] EXCEPT !.status = status] ELSE list[k]]

\* the statistics a response can carry
ResponseStatistics ==
  {NoStatistics, [present |-> TRUE, cancer_percentage |-> 5],
                 [present |-> TRUE, cancer_percentage |-> 205]}

\* results[0] of the service's JSON, as far as processImages reads it
ServiceResults ==
  [status : {"success", "error"}, overlay : BOOLEAN, original : BOOLEAN,
   gradcam : BOOLEAN, statistics : ResponseStatistics]

\* what the fetch of /segment-single can bring
FetchOutcomes ==
  {[kind |-> "network error"], [kind |-> "not ok"], [kind |-> "no results"]}
  \cup {[kind |-> "results", first |-> r] : r \in ServiceResults}

ErrorResult ==
  [status |-> "error", overlay |-> FALSE, original |-> FALSE, gradcam |-> FALSE,
   statistics |-> NoStatistics]

NoApiResult == [status |-> "none"]

\* a mutant: a failed request answered like an empty, successful segmentation
segmentImageZeroOnFailure(outcome) ==
  IF outcome.kind = "results" THEN outcome.first
  ELSE [status |-> "success", overlay |-> TRUE, original |-> TRUE, gradcam |-> TRUE,
        statistics |-> [present |-> TRUE, cancer_percentage |-> 0]]

\* SegmentationService.segmentImage: results[0], or an error result for a
\* network error, a non-OK status or an empty results array
segmentImage(outcome) ==
  IF outcome.kind = "results" THEN outcome.first ELSE ErrorResult

\* a mutant: status 'success' is enough
ResultUsableStatusOnly(r) == r.status = "success"

\* apiResult.status === 'success' && apiResult.overlay && apiResult.original
ResultUsable(r) == r.status = "success" /\ r.overlay /\ r.original

\* the request failed in one of the ways the service or the network can fail
RequestFailed(outcome) ==
  \/ outcome.kind # "results"
  \/ outcome.first.status = "error"
  \/ ~outcome.first.overlay
  \/ ~outcome.first.original

\* the AnalysisResult built from a usable apiResult
ApiAnalysisResult(id, r) ==
  [id |-> id,
   riskScore |-> CancerPercentageOf(r.statistics),
   riskLevel |-> RiskLevel(CancerPercentageOf(r.statistics), PctScale),
   heatmap |-> IF r.gradcam THEN "backend" ELSE "client",
   source |-> "api"]

\* the AnalysisResult of simulateModelInference
MockAnalysisResult(id, p) ==
  [id |-> id, riskScore |-> p, riskLevel |-> RiskLevel(p, PctScale),
   heatmap |-> "mock", source |-> "mock"]

NewAttempt(id) == [id |-> id, requestFailed |-> FALSE, failed |-> FALSE, ended |-> "pending"]

LogRequest(log, failed) ==
  [log EXCEPT ![Len(log)].requestFailed = failed, ![Len(log)].failed = failed]

LogEnd(log, failed, ended) ==
  [log EXCEPT ![Len(log)].failed = @ \/ failed, ![Len(log)].ended = ended]

ProcInit ==
  /\ images \in {ImagesOf(st) : st \in UploadedLists}
  /\ isProcessing = FALSE
  /\ analysisResults = <<>>
  /\ processingProgress = 0
  /\ currentProcessingImage = 0
  /\ apiAvailable = "null"
  /\ pc = "idle"
  /\ readyImages = <<>>
  /\ idx = 0
  /\ results = <<>>
  /\ useAPI = FALSE
  /\ apiResult = NoApiResult
  /\ attemptLog = <<>>

\* the mount effect's checkHealth resolves
CheckHealth ==
  /\ apiAvailable = "null"
  /\ \E available \in {"true", "false"} : apiAvailable' = available
  /\ UNCHANGED <<images, isProcessing, analysisResults, processingProgress,
                 currentProcessingImage, pc, readyImages, idx, results, useAPI,
                 apiResult, attemptLog>>
  /\ UNCHANGED nonProcVars

\* the Analyze button (enabled with a ready image and no run): processImages
\* up to the loop
StartProcessing ==
  /\ ~isProcessing /\ pc = "idle"
  /\ ReadyOf(images) # <<>>
  /\ readyImages' = ReadyOf(images)
  /\ isProcessing' = TRUE
  /\ processingProgress' = 0
  /\ analysisResults' = <<>>
  /\ results' = <<>>
  /\ useAPI' = (apiAvailable = "true")
  /\ idx' = 1
  /\ pc' = "loop"
  /\ attemptLog' = <<>>
  /\ UNCHANGED <<images, currentProcessingImage, apiAvailable, apiResult>>
  /\ UNCHANGED nonProcVars

\* the loop body up to its first await: the image is marked 'processing' and
\* segmentImage or simulateModelInference is called
BeginImage ==
  /\ pc = "loop" /\ idx <= Len(readyImages)
  /\ currentProcessingImage' = readyImages[idx].id
  /\ images' = SetStatus(images, readyImages[idx].id, "processing")
  /\ pc' = IF useAPI THEN "segment" ELSE "simulate"
  /\ attemptLog' = Append(attemptLog, NewAttempt(readyImages[idx].id))
  /\ UNCHANGED <<isProcessing, analysisResults, processingProgress, apiAvailable,
                 readyImages, idx, results, useAPI, apiResult>>
  /\ UNCHANGED nonProcVars

\* segmentImage returns
SegmentReturns ==
  /\ pc = "segment"
  /\ \E outcome \in FetchOutcomes :
       /\ apiResult' = segmentImage(outcome)
       /\ attemptLog' = LogRequest(attemptLog, RequestFailed(outcome))
  /\ pc' = "handle"
  /\ UNCHANGED <<images, isProcessing, analysisResults, processingProgress,
                 currentProcessingImage, apiAvailable, readyImages, idx, results, useAPI>>
  /\ UNCHANGED nonProcVars

\* the rest of the API branch: the heatmap (from the response, or drawn by
\* createHeatmapFromOverlay, which rejects when the overlay does not load), the
\* result pushed and the progress advanced; or the catch block
HandleApiResult ==
  /\ pc = "handle"
  /\ \E overlayLoads \in BOOLEAN :
       IF ResultUsable(apiResult) /\ (apiResult.gradcam \/ overlayLoads)
       THEN /\ results' = Append(results, ApiAnalysisResult(readyImages[idx].id, apiResult))
            /\ processingProgress' = (idx * 100) \div Len(readyImages)
            /\ attemptLog' = LogEnd(attemptLog, FALSE, "result")
            /\ UNCHANGED images
       ELSE /\ images' = SetStatus(images, readyImages[idx].id, "error")
            /\ attemptLog' = LogEnd(attemptLog, TRUE, "error")
            /\ UNCHANGED <<results, processingProgress>>
  /\ idx' = idx + 1
  /\ pc' = "loop"
  /\ apiResult' = NoApiResult
  /\ UNCHANGED <<isProcessing, analysisResults, currentProcessingImage, apiAvailable,
                 readyImages, useAPI>>
  /\ UNCHANGED nonProcVars

\* simulateModelInference: it resolves once the image has loaded; it sets no
\* onerror, so for an image that does not load it never resolves
SimulateReturns ==
  /\ pc = "simulate"
  /\ \E imageLoads \in BOOLEAN, p \in {5, 205} :
       IF imageLoads
       THEN /\ results' = Append(results, MockAnalysisResult(readyImages[idx].id, p))
            /\ processingProgress' = (idx * 100) \div Len(readyImages)
            /\ attemptLog' = LogEnd(attemptLog, FALSE, "result")
            /\ idx' = idx + 1
            /\ pc' = "loop"
       ELSE /\ attemptLog' = LogEnd(attemptLog, TRUE, "never")
            /\ pc' = "never resolves"
            /\ UNCHANGED <<results, processingProgress, idx>>
  /\ UNCHANGED <<images, isProcessing, analysisResults, currentProcessingImage,
                 apiAvailable, readyImages, useAPI, apiResult>>
  /\ UNCHANGED nonProcVars

\* after the loop
FinishProcessing ==
  /\ pc = "loop" /\ idx > Len(readyImages)
  /\ analysisResults' = results
  /\ isProcessing' = FALSE
  /\ currentProcessingImage' = 0
  /\ pc' = "idle"
  /\ UNCHANGED <<images, processingProgress, apiAvailable, readyImages, idx, results,
                 useAPI, apiResult, attemptLog>>
  /\ UNCHANGED nonProcVars

\* AnalysisResults' onClose
CloseResults ==
  /\ analysisResults # <<>>
  /\ analysisResults' = <<>>
  /\ UNCHANGED <<images, isProcessing, processingProgress, currentProcessingImage,
                 apiAvailable, pc, readyImages, idx, results, useAPI, apiResult, attemptLog>>
  /\ UNCHANGED nonProcVars

ProcNext ==
  \/ CheckHealth \/ StartProcessing \/ BeginImage \/ SegmentReturns \/ HandleApiResult
  \/ SimulateReturns \/ FinishProcessing \/ CloseResults

----------------------------------------------------------------------------
\* The service's postprocessing statistics, and processImages reading them

Masks ==
  UNION {[1..n -> {0, 1}] : n \in 1..MaxSmallMask}
  \cup {[c \in 1..n |-> IF c <= k THEN 1 ELSE 0] : n \in 1..MaxMaskCells, k \in 0..MaxOnes}

CountCells(m, v) == Cardinality({c \in DOMAIN m : m[c] = v})

\* n / d rounded to an integer, ties to even (round() of the service's language)
RoundHalfEven(n, d) ==
  LET q == n \div d
      r == n % d
  IN IF 2 * r < d THEN q
     ELSE IF 2 * r > d THEN q + 1
     ELSE IF q % 2 = 0 THEN q ELSE q + 1

\* a mutant: the percentage cut after two decimals instead of rounded
StatisticsTruncated(m) ==
  [present |-> TRUE,
   total_pixels |-> Len(m),
   cancer_pixels |-> CountCells(m, 1),
   background_pixels |-> CountCells(m, 0),
   cancer_percentage |-> (CountCells(m, 1) * 100 * PctScale) \div Len(m)]

\* the statistics object: cancer_percentage is the coverage rounded to two
\* decimals, held in hundredths
Statistics(m) ==
  [present |-> TRUE,
   total_pixels |-> Len(m),
   cancer_pixels |-> CountCells(m, 1),
   background_pixels |-> CountCells(m, 0),
   cancer_percentage |-> RoundHalfEven(CountCells(m, 1) * 100 * PctScale, Len(m))]

\* the service's tier: the thresholds on coverage_percent at full precision,
\* positive_pixels / total_pixels * 100
ServiceRiskLevel(m) == RiskLevel(CountCells(m, 1) * 100, Len(m))

StatInit ==
  /\ mask \in Masks
  /\ statistics = NoStatistics
  /\ serviceRisk = "none"
  /\ clientRisk = "none"
  /\ statPc = "mask"

\* postprocess: statistics and tier of the mask
Postprocess ==
  /\ statPc = "mask"
  /\ statistics' = Statistics(mask)
  /\ serviceRisk' = ServiceRiskLevel(mask)
  /\ statPc' = "reported"
  /\ UNCHANGED <<mask, clientRisk>>
  /\ UNCHANGED nonStatVars

\* processImages: the tier of the reported cancer_percentage
ClientClassify ==
  /\ statPc = "reported"
  /\ clientRisk' = RiskLevel(CancerPercentageOf(statistics), PctScale)
  /\ statPc' = "classified"
  /\ UNCHANGED <<mask, statistics, serviceRisk>>
  /\ UNCHANGED nonStatVars

StatNext == Postprocess \/ ClientClassify

----------------------------------------------------------------------------
\* DetectionPage.createHeatmapFromOverlay: the distance map

\* maxDist (80 pixels), and the step costs 1 and 1.414, in thousandths
maxDist == 80000
AxisStep == 1000
DiagonalStep == 1414

\* the overlay colours drawn: a pixel of the red blend and a pixel of tissue
OverlayColours == {<<218, 40, 36>>, <<120, 90, 80>>}

\* r > 100 && (r > g + 50) && (r > b + 50)
isPolypRegion(rgb) == rgb[1] > 100 /\ rgb[1] > rgb[2] + 50 /\ rgb[1] > rgb[3] + 50

Min2(a, b) == IF a <= b THEN a ELSE b

\* Math.min of four values
Min4(a, b, c, d) == Min2(Min2(a, b), Min2(c, d))

\* the forward pass from pixel (x, y) on: rows 1..height-1, columns 1..width-1,
\* each pixel from its upper, left and upper-left neighbour
RECURSIVE ForwardPass(_, _, _, _, _)
ForwardPass(d, x, y, w, h) ==
  IF y >= h THEN d
  ELSE IF x >= w THEN ForwardPass(d, 1, y + 1, w, h)
  ELSE LET i == y * w + x
           v == Min4(d[i],
                     d[(y - 1) * w + x] + AxisStep,
                     d[y * w + (x - 1)] + AxisStep,
                     d[(y - 1) * w + (x - 1)] + DiagonalStep)
       IN ForwardPass([d EXCEPT ![i] = v], x + 1, y, w, h)

\* the backward pass from pixel (x, y) on: rows height-2..0, columns width-2..0,
\* each pixel from its lower, right and lower-right neighbour
RECURSIVE BackwardPass(_, _, _, _, _)
BackwardPass(d, x, y, w, h) ==
  IF y < 0 THEN d
  ELSE IF x < 0 THEN BackwardPass(d, w - 2, y - 1, w, h)
  ELSE LET i == y * w + x
           v == Min4(d[i],
                     d[(y + 1) * w + x] + AxisStep,
                     d[y * w + (x + 1)] + AxisStep,
                     d[(y + 1) * w + (x + 1)] + DiagonalStep)
       IN BackwardPass([d EXCEPT ![i] = v], x - 1, y, w, h)

\* alpha is kept in units of 1/AlphaScale, so that every band's line has
\* whole coefficients: 0.2 per quarter is 4 per thousandth of a pixel, 0.15
\* per quarter is 3
AlphaScale == 400000

\* a quarter of maxDist: the width of a gradient band
BandWidth == maxDist \div 4

\* normalizedDist = Math.min(distance / maxDist, 1.0), then the four bands:
\* gradR, gradG, gradB and alpha, t being the position within the band
Tint(distance) ==
  LET d == Min2(distance, maxDist)
      t == d % BandWidth
  IN IF d < BandWidth
     THEN [r |-> 255, g |-> (100 * t) \div BandWidth, b |-> 0, alpha |-> 280000 - 4 * t]
     ELSE IF d < 2 * BandWidth
     THEN [r |-> 255, g |-> 100 + (155 * t) \div BandWidth, b |-> 0,
           alpha |-> 200000 - 3 * t]
     ELSE IF d < 3 * BandWidth
     THEN [r |-> (255 * BandWidth - 155 * t) \div BandWidth, g |-> 255,
           b |-> (100 * t) \div BandWidth, alpha |-> 140000 - 3 * t]
     ELSE [r |-> (100 * BandWidth - 100 * (d - 3 * BandWidth)) \div BandWidth, g |-> 255,
           b |-> 100 + (55 * (d - 3 * BandWidth)) \div BandWidth,
           alpha |-> 80000 - 3 * (d - 3 * BandWidth)]

\* after drawing the images: distanceMap.fill(maxDist)
HeatInit ==
  /\ width \in 1..MaxDim
  /\ height \in 1..MaxDim
  /\ overlayData \in [0..(width * height - 1) -> OverlayColours]
  /\ distanceMap = [i \in 0..(width * height - 1) |-> maxDist]
  /\ tintMap = <<>>
  /\ heatPc = "filled"

\* "Mark polyp pixels"
MarkPolypPixels ==
  /\ heatPc = "filled"
  /\ distanceMap' = [i \in DOMAIN distanceMap |->
                       IF isPolypRegion(overlayData[i]) THEN 0 ELSE distanceMap[i]]
  /\ heatPc' = "marked"
  /\ UNCHANGED <<width, height, overlayData, tintMap>>
  /\ UNCHANGED nonHeatVars

\* "Forward pass"
Forward ==
  /\ heatPc = "marked"
  /\ distanceMap' = ForwardPass(distanceMap, 1, 1, width, height)
  /\ heatPc' = "forward"
  /\ UNCHANGED <<width, height, overlayData, tintMap>>
  /\ UNCHANGED nonHeatVars

\* "Backward pass"
Backward ==
  /\ heatPc = "forward"
  /\ distanceMap' = BackwardPass(distanceMap, width - 2, height - 2, width, height)
  /\ heatPc' = "backward"
  /\ UNCHANGED <<width, height, overlayData, tintMap>>
  /\ UNCHANGED nonHeatVars

\* "Apply smooth Grad-CAM gradient": every pixel's tint; the pixel drawn is
\* the original pixel blended with it, channel by channel
Blend ==
  /\ heatPc = "backward"
  /\ tintMap' = [i \in DOMAIN distanceMap |-> Tint(distanceMap[i])]
  /\ heatPc' = "blended"
  /\ UNCHANGED <<width, height, overlayData, distanceMap>>
  /\ UNCHANGED nonHeatVars

HeatNext == MarkPolypPixels \/ Forward \/ Backward \/ Blend

----------------------------------------------------------------------------
\* The inference service: validate, preprocess, infer, postprocess.
\* Its code is not part of the frontend sources; the pipeline is taken from the
\* specification (sections 4.1-4.4, 5, 7) and from technical.md.

Requests == 1..MaxRequests

\* minimum decoded width and height
MinImageSize == 300

\* the one message a rejected upload gets
GenericMessage == "Invalid image, please upload a colonoscopy image"

\* an upload as the validator sees it: whether the bytes decode, the decoded
\* size, and what each heuristic measures
Upload(decodes, w, h, red, vignette, varied, smooth) ==
  [decodes |-> decodes, width |-> w, height |-> h, redDominant |-> red,
   vignette |-> vignette, colourVaried |-> varied, smoothEdges |-> smooth]

\* the uploads drawn: a corrupt byte stream, two colonoscopy frames (one of
\* the minimum size), a 100x100 solid gray image, and one upload per heuristic
\* that fails that heuristic only
Uploads ==
  { Upload(FALSE, 0, 0, FALSE, FALSE, FALSE, FALSE),
    Upload(TRUE, 512, 512, TRUE, TRUE, TRUE, TRUE),
    Upload(TRUE, 300, 300, TRUE, TRUE, TRUE, TRUE),
    Upload(TRUE, 100, 100, FALSE, FALSE, FALSE, TRUE),
    Upload(TRUE, 299, 300, TRUE, TRUE, TRUE, TRUE),
    Upload(TRUE, 512, 512, FALSE, TRUE, TRUE, TRUE),
    Upload(TRUE, 512, 512, TRUE, FALSE, TRUE, TRUE),
    Upload(TRUE, 512, 512, TRUE, TRUE, FALSE, TRUE),
    Upload(TRUE, 512, 512, TRUE, TRUE, TRUE, FALSE) }

\* the heuristics a decoded upload fails
FailedChecks(u) ==
  (IF u.width < MinImageSize \/ u.height < MinImageSize THEN {"size"} ELSE {})
    \cup (IF ~u.redDominant THEN {"colour dominance"} ELSE {})
    \cup (IF ~u.vignette THEN {"vignette"} ELSE {})
    \cup (IF ~u.colourVaried THEN {"colour variance"} ELSE {})
    \cup (IF ~u.smoothEdges THEN {"edge density"} ELSE {})

\* why the validator turns an upload down, {} for an upload it accepts
RejectionCauses(u) == IF ~u.decodes THEN {"decode"} ELSE FailedChecks(u)

Accepted == [accepted |-> TRUE, reason |-> "none", threw |-> FALSE]

Rejected(reason) == [accepted |-> FALSE, reason |-> reason, threw |-> FALSE]

Thrown == [accepted |-> FALSE, reason |-> "exception", threw |-> TRUE]

\* a validator that reports what failed, and raises on bytes that do not decode
validateNamingCause(u) ==
  IF ~u.decodes THEN Thrown
  ELSE IF FailedChecks(u) # {}
    THEN Rejected(CHOOSE c \in FailedChecks(u) : TRUE)
    ELSE Accepted

\* validate(rawBytes) -> {accepted, reason}: a decode failure is a rejection,
\* any failed heuristic is a rejection, and every rejection carries the
\* generic message
validate(u) ==
  IF ~u.decodes THEN Rejected(GenericMessage)
  ELSE IF FailedChecks(u) # {} THEN Rejected(GenericMessage)
  ELSE Accepted

\* the stages in pipeline order
Stages == <<"validate", "preprocess", "infer", "postprocess">>

\* a request between stages: how many stages it has finished
Finished == <<"validated", "preprocessed", "inferred", "done">>

\* the stage a request enters next, "none" when it is in a stage or at its end
NextStage(position) ==
  IF position = "received" THEN Stages[1]
  ELSE IF \E k \in 1..(Len(Stages) - 1) : Finished[k] = position
    THEN Stages[(CHOOSE k \in 1..(Len(Stages) - 1) : Finished[k] = position) + 1]
    ELSE "none"

NoResponse == [status |-> "none", code |-> 0, message |-> "none"]

RejectionResponse(result) == [status |-> "error", code |-> 400, message |-> result.reason]

InternalErrorResponse == [status |-> "error", code |-> 500, message |-> "Internal Server Error"]

UnavailableResponse == [status |-> "error", code |-> 503, message |-> "Model error"]

SuccessResponse == [status |-> "success", code |-> 200, message |-> "none"]

\* a pipeline that goes on to preprocessing whatever the validator said
AfterValidateIgnoringResult(result) ==
  [position |-> "validated", response |-> NoResponse]

\* where a request goes when validation returns, and what it answers
AfterValidate(result) ==
  IF result.threw THEN [position |-> "failed", response |-> InternalErrorResponse]
  ELSE IF result.accepted THEN [position |-> "validated", response |-> NoResponse]
  ELSE [position |-> "rejected", response |-> RejectionResponse(result)]

SrvInit ==
  /\ reqUpload \in [Requests -> Uploads]
  /\ reqStage = [r \in Requests |-> "received"]
  /\ stageLog = [r \in Requests |-> <<>>]
  /\ response = [r \in Requests |-> NoResponse]

\* a request enters its next stage
BeginStage ==
  \E r \in Requests :
    /\ NextStage(reqStage[r]) # "none"
    /\ reqStage' = [reqStage EXCEPT ![r] = NextStage(reqStage[r])]
    /\ stageLog' = [stageLog EXCEPT ![r] = Append(@, <<"start", NextStage(reqStage[r])>>)]
    /\ UNCHANGED <<reqUpload, response>>
    /\ UNCHANGED nonSrvVars

\* validate_image_bytes returns
ValidateReturns ==
  \E r \in Requests :
    /\ reqStage[r] = "validate"
    /\ LET after == AfterValidate(validate(reqUpload[r]))
       IN /\ reqStage' = [reqStage EXCEPT ![r] = after.position]
          /\ response' = [response EXCEPT ![r] = after.response]
    /\ stageLog' = [stageLog EXCEPT ![r] = Append(@, <<"end", "validate">>)]
    /\ UNCHANGED reqUpload
    /\ UNCHANGED nonSrvVars

\* preprocess_image returns: a total function on decoded valid images
PreprocessReturns ==
  \E r \in Requests :
    /\ reqStage[r] = "preprocess"
    /\ reqStage' = [reqStage EXCEPT ![r] = "preprocessed"]
    /\ stageLog' = [stageLog EXCEPT ![r] = Append(@, <<"end", "preprocess">>)]
    /\ UNCHANGED <<reqUpload, response>>
    /\ UNCHANGED nonSrvVars

\* model.predict returns a mask, or the model is unusable or throws
InferReturns ==
  \E r \in Requests, modelWorks \in BOOLEAN :
    /\ reqStage[r] = "infer"
    /\ reqStage' = [reqStage EXCEPT ![r] = IF modelWorks THEN "inferred" ELSE "unavailable"]
    /\ response' = [response EXCEPT ![r] = IF modelWorks THEN @ ELSE UnavailableResponse]
    /\ stageLog' = [stageLog EXCEPT ![r] = Append(@, <<"end", "infer">>)]
    /\ UNCHANGED reqUpload
    /\ UNCHANGED nonSrvVars

\* postprocessing returns and the JSON response goes out
PostprocessReturns ==
  \E r \in Requests :
    /\ reqStage[r] = "postprocess"
    /\ reqStage' = [reqStage EXCEPT ![r] = "done"]
    /\ response' = [response EXCEPT ![r] = SuccessResponse]
    /\ stageLog' = [stageLog EXCEPT ![r] = Append(@, <<"end", "postprocess">>)]
    /\ UNCHANGED reqUpload
    /\ UNCHANGED nonSrvVars

SrvNext ==
  \/ BeginStage
  \/ ValidateReturns
  \/ PreprocessReturns
  \/ InferReturns
  \/ PostprocessReturns

----------------------------------------------------------------------------
\* TwoFactorService (verifyCode, complete2FASetup, isSetupRequired,
\* generateSetup, disable2FA) and AuthService.login, as a caller may use them

\* \d
Digits == {"0", "1", "2", "3", "4", "5", "6", "7", "8", "9"}

\* the characters codes are built from
CodeChars == {"0", "x"}

\* validCodes
validCodes == {<<"1", "2", "3", "4", "5", "6">>, <<"0", "0", "0", "0", "0", "0">>}

\* how many \d characters follow one another from position pos on
RECURSIVE DigitRun(_, _)
DigitRun(code, pos) ==
  IF pos > Len(code) \/ code[pos] \notin Digits THEN 0
  ELSE 1 + DigitRun(code, pos + 1)

\* /^\d{6}$/.test(code): six digits from the start, and the end right after
TestSixDigits(code) == DigitRun(code, 1) >= 6 /\ Len(code) = 6

\* /\d{6}/.test(code): six digits in a row anywhere
TestSixDigitsAnywhere(code) == \E start \in 1..Len(code) : DigitRun(code, start) >= 6

\* /^\d+$/.test(code)
TestAllDigits(code) == Len(code) >= 1 /\ DigitRun(code, 1) = Len(code)

\* verifyCode with the format test left unanchored
verifyCodeUnanchored(code, isSetup) ==
  IF ~TestSixDigitsAnywhere(code)
  THEN [isValid |-> FALSE, remainingAttempts |-> "2", completes |-> FALSE]
  ELSE LET isValidFormat == Len(code) = 6 /\ TestAllDigits(code)
           isValid == code \in validCodes \/ isValidFormat
       IN [isValid |-> isValid,
           remainingAttempts |-> IF isValid THEN "undefined" ELSE "1",
           completes |-> isValid /\ isSetup]

\* verifyCode completing the setup on every valid code, isSetup or not
verifyCodeCompletesAlways(code, isSetup) ==
  IF ~TestSixDigits(code)
  THEN [isValid |-> FALSE, remainingAttempts |-> "2", completes |-> FALSE]
  ELSE LET isValidFormat == Len(code) = 6 /\ TestAllDigits(code)
           isValid == code \in validCodes \/ isValidFormat
       IN [isValid |-> isValid,
           remainingAttempts |-> IF isValid THEN "undefined" ELSE "1",
           completes |-> isValid]

\* TwoFactorService.verifyCode: what it returns, and whether it calls
\* complete2FASetup(email)
verifyCode(code, isSetup) ==
  IF ~TestSixDigits(code)
  THEN [isValid |-> FALSE, remainingAttempts |-> "2", completes |-> FALSE]
  ELSE LET isValidFormat == Len(code) = 6 /\ TestAllDigits(code)
           isValid == code \in validCodes \/ isValidFormat
       IN [isValid |-> isValid,
           remainingAttempts |-> IF isValid THEN "undefined" ELSE "1",
           completes |-> isValid /\ isSetup]

NoVerify == [called |-> FALSE]

NoLogin == [called |-> FALSE]

TfInit ==
  /\ codeArg = <<>>
  /\ setupData = {}
  /\ lastVerify = NoVerify
  /\ lastLogin = NoLogin
  /\ setupVerified = {}

\* the caller builds the code, one character at a time
TypeCodeChar ==
  /\ Len(codeArg) < MaxCodeLen
  /\ \E c \in CodeChars : codeArg' = Append(codeArg, c)
  /\ lastVerify' = NoVerify
  /\ UNCHANGED <<setupData, lastLogin, setupVerified, setupDone, sessionStore>>
  /\ UNCHANGED nonTfVars

\* the caller hands over one of a few codes: none, six digits, seven digits,
\* five digits and a letter
SampleCodes ==
  {<<>>, <<"0", "0", "0", "0", "0", "0">>, <<"0", "0", "0", "0", "0", "0", "0">>,
   <<"0", "0", "0", "0", "0", "x">>}

EnterCode ==
  /\ codeArg' \in SampleCodes
  /\ lastVerify' = NoVerify
  /\ UNCHANGED <<setupData, lastLogin, setupVerified, setupDone, sessionStore>>
  /\ UNCHANGED nonTfVars

ClearCode ==
  /\ codeArg # <<>>
  /\ codeArg' = <<>>
  /\ lastVerify' = NoVerify
  /\ UNCHANGED <<setupData, lastLogin, setupVerified, setupDone, sessionStore>>
  /\ UNCHANGED nonTfVars

\* TwoFactorService.generateSetup(email): stores the temporary setup data
GenerateSetup ==
  /\ \E email \in Emails : setupData' = setupData \cup {email}
  /\ UNCHANGED <<codeArg, lastVerify, lastLogin, setupVerified, setupDone, sessionStore>>
  /\ UNCHANGED nonTfVars

\* TwoFactorService.verifyCode(email, codeArg, isSetup), with
\* complete2FASetup(email) when it calls it
VerifyCode ==
  /\ \E email \in Emails, isSetup \in BOOLEAN :
       LET result == verifyCode(codeArg, isSetup)
       IN /\ sessionStore' = sessionStore
          /\ setupDone' = IF result.completes THEN setupDone \cup {email} ELSE setupDone
          /\ setupData' = IF result.completes THEN setupData \ {email} ELSE setupData
          /\ setupVerified' = IF result.isValid /\ isSetup
                              THEN setupVerified \cup {email} ELSE setupVerified
          /\ lastVerify' = [called |-> TRUE, email |-> email, isSetup |-> isSetup,
                            isValid |-> result.isValid,
                            remainingAttempts |-> result.remainingAttempts,
                            storeChanged |-> <<setupDone', setupData', sessionStore'>>
                                               # <<setupDone, setupData, sessionStore>>,
                            requiredChanged |-> setupDone' # setupDone]
  /\ UNCHANGED <<codeArg, lastLogin>>
  /\ UNCHANGED nonTfVars

\* TwoFactorService.disable2FA(email)
Disable2FA ==
  /\ \E email \in Emails :
       /\ setupDone' = setupDone \ {email}
       /\ setupData' = setupData \ {email}
       /\ setupVerified' = setupVerified \ {email}
  /\ UNCHANGED <<codeArg, lastVerify, lastLogin, sessionStore>>
  /\ UNCHANGED nonTfVars

\* AuthService.login(credentials): the session is saved and returned, or
\* Firebase rejects and it throws
ServiceLogin ==
  /\ \E email \in Emails, firebaseOk \in BOOLEAN :
       IF firebaseOk
       THEN /\ sessionStore' = LoginSession(email, FALSE)
            /\ lastLogin' = [called |-> TRUE, threw |-> FALSE,
                             session |-> LoginSession(email, FALSE),
                             afterSetup |-> email \in setupVerified]
       ELSE /\ lastLogin' = [called |-> TRUE, threw |-> TRUE, session |-> NoUser,
                             afterSetup |-> email \in setupVerified]
            /\ UNCHANGED sessionStore
  /\ UNCHANGED <<codeArg, setupData, lastVerify, setupVerified, setupDone>>
  /\ UNCHANGED nonTfVars

\* verifyCode on codes of every shape
TfNext == TypeCodeChar \/ ClearCode \/ GenerateSetup \/ VerifyCode \/ Disable2FA

\* verifyCode, disable2FA and login in any order
TfLoginNext == EnterCode \/ GenerateSetup \/ VerifyCode \/ Disable2FA \/ ServiceLogin

----------------------------------------------------------------------------
\* ImageUpload (handleFiles, the progress intervals, removeImage, the reset
\* effect) with DetectionPage.handleImagesChange and handleReset.
\* Every handler and timer callback runs to its end, and the component is
\* rendered again before the next one runs.

\* the maxImages prop: 10 by default, 2 here
maxImages == 2

\* what one interval tick adds: Math.random() * 30 + 10 lies in [10, 40)
ProgressSteps == {35, 39}

\* the smallest and a large addition, for following one interval tick by tick
SlowProgressSteps == {10, 39}

\* the interval's test with 100 itself not ending it
IntervalEndsAbove(progress) == progress > 100

\* if (progress >= 100): the interval's last tick
IntervalEnds(progress) == progress >= 100

\* the image as DetectionPage's list holds it
PageImage(img) == [id |-> img.id, status |-> img.status]

PageImages(list) == [k \in DOMAIN list |-> PageImage(list[k])]

\* list.filter(img => img.id !== id)
RECURSIVE WithoutId(_, _)
WithoutId(list, id) ==
  IF list = <<>> THEN <<>>
  ELSE IF Head(list).id = id THEN WithoutId(Tail(list), id)
       ELSE <<Head(list)>> \o WithoutId(Tail(list), id)

\* prevImages.map(image => image.id === id ? { ...image, progress, status } : image)
WithProgress(list, id, progress, status) ==
  [k \in DOMAIN list |->
     IF list[k].id = id THEN [list[k] EXCEPT !.progress = progress, !.status = status]
     ELSE list[k]]

\* handleFiles' limit test with the files already held left out
ExceedsLimitNewOnly(held, selected) == selected > maxImages

\* images.length + fileArray.length > maxImages
ExceedsLimit(held, selected) == held + selected > maxImages

\* the reset effect's guard testing for a second reset
ResetEffectAppliesLate(key) == key > 1

\* the reset effect's guard: resetKey > 0
ResetEffectApplies(key) == key > 0

\* DetectionPage.handleImagesChange(newImages), as made by a render in which
\* analysisResults.length > 0 was sawResults
HandleImagesChangeOf(newImages, sawResults) ==
  /\ images' = PageImages(newImages)
  /\ analysisResults' = IF sawResults /\ Len(newImages) = 0
                        THEN <<>> ELSE analysisResults

\* the handleImagesChange of the latest render
HandleImagesChange(newImages) ==
  HandleImagesChangeOf(newImages, Len(analysisResults) > 0)

\* an event of ImageUpload: for a selection, the images held before it, the
\* files selected and the images it added
Event(op, held, files, added) == [op |-> op, held |-> held, files |-> files, added |-> added]

\* a freshly mounted DetectionPage
UploadFresh ==
  /\ ProcInit /\ images = <<>>
  /\ uploadImages = <<>>
  /\ timers = <<>>
  /\ nextId = 1

\* a DetectionPage whose one image was uploaded and analysed in demo mode
UploadAnalysed ==
  /\ uploadImages = <<[id |-> 1, status |-> "ready", progress |-> 100]>>
  /\ timers = <<[progress |-> 100, fired |-> 3, cleared |-> TRUE, sawResults |-> FALSE]>>
  /\ nextId = 2
  /\ images = <<[id |-> 1, status |-> "processing"]>>
  /\ isProcessing = FALSE
  /\ analysisResults = <<MockAnalysisResult(1, 205)>>
  /\ processingProgress = 100
  /\ currentProcessingImage = 0
  /\ apiAvailable = "false"
  /\ pc = "idle"
  /\ readyImages = <<[id |-> 1, status |-> "ready"]>>
  /\ idx = 2
  /\ results = <<MockAnalysisResult(1, 205)>>
  /\ useAPI = FALSE
  /\ apiResult = NoApiResult
  /\ attemptLog = <<[id |-> 1, requestFailed |-> FALSE, failed |-> FALSE, ended |-> "result"]>>

UploadInit ==
  /\ UploadFresh \/ UploadAnalysed
  /\ resetKey = 0
  /\ resetIds = {}
  /\ lastEvent = Event("none", 0, 0, 0)

\* handleFiles(files): nFiles files are selected or dropped, nValid of them
\* pass validateFile; maxIds images are followed at most, and the event is
\* recorded if recorded
SelectFilesUpTo(maxIds, recorded) ==
  /\ \E nFiles \in 0..MaxFiles :
       \E nValid \in 0..nFiles :
         /\ nextId + nValid - 1 <= maxIds
         /\ IF ExceedsLimit(Len(uploadImages), nFiles)
            THEN UNCHANGED <<uploadImages, timers, nextId, images, analysisResults>>
            ELSE LET newImages == [k \in 1..nValid |->
                                     [id |-> nextId + k - 1, status |-> "uploading",
                                      progress |-> 0]]
                     updatedImages == uploadImages \o newImages
                 IN /\ uploadImages' = updatedImages
                    /\ HandleImagesChange(updatedImages)
                    /\ timers' = timers \o [k \in 1..nValid |->
                                              [progress |-> 0, fired |-> 0, cleared |-> FALSE,
                                               sawResults |-> Len(analysisResults) > 0]]
                    /\ nextId' = nextId + nValid
         /\ lastEvent' = IF recorded
                         THEN Event("select", Len(uploadImages), nFiles,
                                    Len(uploadImages') - Len(uploadImages))
                         ELSE lastEvent
  /\ UNCHANGED <<resetKey, resetIds, isProcessing, processingProgress,
                 currentProcessingImage>>
  /\ UNCHANGED nonUploadVars

SelectFiles == SelectFilesUpTo(MaxUploadIds, TRUE)

\* one tick of an image's progress interval, adding one of steps
TimerTickBy(steps, recorded) ==
  /\ \E id \in DOMAIN timers, step \in steps :
       /\ ~timers[id].cleared
       /\ LET progress == timers[id].progress + step
          IN IF IntervalEnds(progress)
             THEN LET updated == WithProgress(uploadImages, id, 100, "ready")
                  IN /\ uploadImages' = updated
                     /\ HandleImagesChangeOf(updated, timers[id].sawResults)
                     /\ timers' = [timers EXCEPT ![id].progress = 100, ![id].cleared = TRUE,
                                                 ![id].fired = @ + 1]
             ELSE LET updated ==
                        [k \in DOMAIN uploadImages |->
                           IF uploadImages[k].id = id
                           THEN [uploadImages[k] EXCEPT !.progress = progress]
                           ELSE uploadImages[k]]
                  IN /\ uploadImages' = updated
                     /\ HandleImagesChangeOf(updated, timers[id].sawResults)
                     /\ timers' = [timers EXCEPT ![id].progress = progress,
                                                 ![id].fired = @ + 1]
  /\ lastEvent' = IF recorded THEN Event("tick", 0, 0, 0) ELSE lastEvent
  /\ UNCHANGED <<nextId, resetKey, resetIds, isProcessing, processingProgress,
                 currentProcessingImage>>
  /\ UNCHANGED nonUploadVars

TimerTick == TimerTickBy(ProgressSteps, TRUE)

\* removeImage(id)
RemoveImageAs(recorded) ==
  /\ \E k \in DOMAIN uploadImages :
       LET updatedImages == WithoutId(uploadImages, uploadImages[k].id)
       IN /\ uploadImages' = updatedImages
          /\ HandleImagesChange(updatedImages)
  /\ lastEvent' = IF recorded THEN Event("remove", 0, 0, 0) ELSE lastEvent
  /\ UNCHANGED <<timers, nextId, resetKey, resetIds, isProcessing, processingProgress,
                 currentProcessingImage>>
  /\ UNCHANGED nonUploadVars

RemoveImage == RemoveImageAs(TRUE)

\* the Reset button (disabled while isProcessing): handleReset, then
\* ImageUpload's effect on the changed resetKey; the intervals keep running
Reset ==
  /\ ~isProcessing
  /\ resetKey < MaxResets
  /\ resetKey' = resetKey + 1
  /\ images' = <<>>
  /\ analysisResults' = <<>>
  /\ processingProgress' = 0
  /\ isProcessing' = FALSE
  /\ currentProcessingImage' = 0
  /\ uploadImages' = IF ResetEffectApplies(resetKey') THEN <<>> ELSE uploadImages
  /\ resetIds' = 1..(nextId - 1)
  /\ lastEvent' = Event("reset", 0, 0, 0)
  /\ UNCHANGED <<timers, nextId>>
  /\ UNCHANGED nonUploadVars

UploadNext == SelectFiles \/ TimerTick \/ RemoveImage \/ Reset

\* the same component with fewer images, each interval followed tick by tick
SelectFewFiles == SelectFilesUpTo(MaxTimerIds, FALSE)

SlowTimerTick == TimerTickBy(SlowProgressSteps, FALSE)

RemoveUnrecorded == RemoveImageAs(FALSE)

UploadTimerNext == SelectFewFiles \/ SlowTimerTick \/ RemoveUnrecorded

----------------------------------------------------------------------------
\* SegmentationService.getRecommendations

\* the level strings processImages passes, and one it does not
RecRiskLevels == {"High Risk", "Medium Risk", "Low Risk", "Safe", "Unknown"}

RecommendationTypes == {"routine", "monitoring", "urgent"}

\* the recommendation lists a response body can carry, by the entries' types
RecommendationLists ==
  UNION {[1..n -> RecommendationTypes] : n \in 0..MaxRecommendations}

\* what the fetch comes to: it rejects, the response is not OK, its body is not
\* JSON, the body is null, it has no recommendations field, or it has a list
RecOutcomes ==
  {[kind |-> k, recommendations |-> <<>>] :
     k \in {"network error", "not ok", "not json", "null body", "no field"}}
    \cup {[kind |-> "list", recommendations |-> l] : l \in RecommendationLists}

\* the hardcoded fallback of the catch block
FallbackRecommendations(level) ==
  IF level = "High Risk" \/ level = "Medium Risk"
  THEN <<"urgent", "urgent", "monitoring">>
  ELSE <<"routine", "routine">>

\* getRecommendations letting the empty-list error escape
getRecommendationsRethrowing(level, outcome) ==
  IF outcome.kind = "list" /\ Len(outcome.recommendations) > 0
  THEN [settled |-> "resolved", fallback |-> FALSE, value |-> outcome.recommendations]
  ELSE IF outcome.kind = "list"
  THEN [settled |-> "rejected", fallback |-> FALSE, value |-> <<>>]
  ELSE [settled |-> "resolved", fallback |-> TRUE,
        value |-> FallbackRecommendations(level)]

\* getRecommendations(riskLevel, cancerPercentage, statistics): every throw
\* inside the try block lands in the catch block
getRecommendations(level, outcome) ==
  IF outcome.kind = "list" /\ Len(outcome.recommendations) > 0
  THEN [settled |-> "resolved", fallback |-> FALSE, value |-> outcome.recommendations]
  ELSE [settled |-> "resolved", fallback |-> TRUE,
        value |-> FallbackRecommendations(level)]

NoRecResult == [settled |-> "pending", fallback |-> FALSE, value |-> <<>>]

RecInit ==
  /\ recRiskLevel = "Safe"
  /\ recOutcome = [kind |-> "network error", recommendations |-> <<>>]
  /\ recResult = NoRecResult

\* a caller asks for recommendations
RecCall ==
  /\ recRiskLevel' \in RecRiskLevels
  /\ recOutcome' \in RecOutcomes
  /\ recResult' = NoRecResult
  /\ UNCHANGED nonRecVars

\* the call settles
RecSettle ==
  /\ recResult = NoRecResult
  /\ recResult' = getRecommendations(recRiskLevel, recOutcome)
  /\ UNCHANGED <<recRiskLevel, recOutcome>>
  /\ UNCHANGED nonRecVars

RecNext == RecCall \/ RecSettle

----------------------------------------------------------------------------
\* Overlay: the service's overlay of one pixel, read back by the heatmap

\* the channel values an original pixel is drawn from
ChannelValues == {0, 60, 100, 101, 150, 151, 200, 255}

\* the overlay colour and its translucency
OverlayColour == <<255, 0, 0>>
OverlayAlpha == 180

\* one channel alpha-blended at OverlayAlpha / 255; the rounding of the
\* quotient is not fixed, so both are possible
BlendChannel(orig, colour, roundsUp) ==
  LET sum == orig * (255 - OverlayAlpha) + colour * OverlayAlpha
  IN IF roundsUp THEN (sum + 127) \div 255 ELSE sum \div 255

\* red blended onto the pixel where the mask is 1, the original pixel where
\* it is 0
OverlayOf(orig, cell, roundsUp) ==
  IF cell = 1
  THEN [c \in 1..3 |-> BlendChannel(orig[c], OverlayColour[c], roundsUp)]
  ELSE orig

OvlInit ==
  /\ origPixel \in ChannelValues \X ChannelValues \X ChannelValues
  /\ maskCell \in {0, 1}
  /\ overlayPixel = <<>>
  /\ seed = "none"
  /\ ovlPc = "image"

CreateOverlay ==
  /\ ovlPc = "image"
  /\ \E roundsUp \in BOOLEAN : overlayPixel' = OverlayOf(origPixel, maskCell, roundsUp)
  /\ ovlPc' = "overlay"
  /\ UNCHANGED <<origPixel, maskCell, seed>>
  /\ UNCHANGED nonOvlVars

\* "Mark polyp pixels", for the one pixel
ClassifyPixel ==
  /\ ovlPc = "overlay"
  /\ seed' = isPolypRegion(overlayPixel)
  /\ ovlPc' = "classified"
  /\ UNCHANGED <<origPixel, maskCell, overlayPixel>>
  /\ UNCHANGED nonOvlVars

OvlNext == CreateOverlay \/ ClassifyPixel

----------------------------------------------------------------------------
\* AuthService: the session item in localStorage, and signup, login and
\* googleAuth as called directly

\* every UserSession
Sessions ==
  [email : Emails, isAuthenticated : BOOLEAN, needs2FASetup : BOOLEAN,
   needs2FAVerification : BOOLEAN]

NoItem == <<"no item">>

BooleanText(b) == IF b THEN "true" ELSE "false"

\* JSON.stringify(session): the text, token by token
Stringify(session) ==
  <<"{", session.email, BooleanText(session.isAuthenticated),
    BooleanText(session.needs2FASetup), BooleanText(session.needs2FAVerification), "}">>

\* JSON.parse(text): the value, or a SyntaxError
Parse(text) ==
  IF /\ Len(text) = 6 /\ text[1] = "{" /\ text[6] = "}"
     /\ text[2] \in Emails
     /\ \A k \in 3..5 : text[k] \in {"true", "false"}
  THEN [threw |-> FALSE,
        value |-> [email |-> text[2], isAuthenticated |-> text[3] = "true",
                   needs2FASetup |-> text[4] = "true",
                   needs2FAVerification |-> text[5] = "true"]]
  ELSE IF text = <<"null">> THEN [threw |-> FALSE, value |-> NoUser]
  ELSE [threw |-> TRUE]

\* texts that something other than AuthService may leave in the item: the
\* empty string, a truncated object, a word, and null
ForeignTexts == {<<>>, <<"{", "ann@x.org">>, <<"session">>, <<"null">>}

Unparseable(item) == item # NoItem /\ Parse(item).threw

\* getCurrentSession without the removal in the catch block
getCurrentSessionKeeping(item) ==
  IF item # NoItem /\ item # <<>>
  THEN IF Parse(item).threw
       THEN [returned |-> NoUser, item |-> item]
       ELSE [returned |-> Parse(item).value, item |-> item]
  ELSE [returned |-> NoUser, item |-> item]

\* AuthService.getCurrentSession on the item: what it returns and what it
\* leaves; if (savedSession) is false for no item and for the empty string
getCurrentSessionOf(item) ==
  IF item # NoItem /\ item # <<>>
  THEN IF Parse(item).threw
       THEN [returned |-> NoUser, item |-> NoItem]
       ELSE [returned |-> Parse(item).value, item |-> item]
  ELSE [returned |-> NoUser, item |-> item]

NoGet == [called |-> FALSE]

NoAuthCall == [op |-> "none"]

\* what Firebase answers to createUserWithEmailAndPassword
SignupAnswers == {"ok", "auth/email-already-in-use", "auth/weak-password", "auth/other"}

\* what Firebase answers to signInWithEmailAndPassword
LoginAnswers == {"ok", "auth/user-not-found", "auth/wrong-password", "auth/other"}

\* what signInWithPopup comes to: a user, a user without email, or an error
PopupAnswers == {"ok", "no email", "auth/popup-closed-by-user", "auth/other"}

CallThrows(message, contacted) ==
  [threw |-> TRUE, message |-> message, contacted |-> contacted, saved |-> FALSE]

CallReturns(session) ==
  [threw |-> FALSE, session |-> session, contacted |-> TRUE, saved |-> TRUE]

\* AuthService.signup(credentials)
signup(email, passwordsMatch, answer) ==
  IF ~passwordsMatch THEN CallThrows("Passwords do not match", FALSE)
  ELSE IF answer = "ok" THEN CallReturns(UserSession(email, TRUE, FALSE))
  ELSE IF answer = "auth/email-already-in-use"
  THEN CallThrows("An account with this email already exists.", TRUE)
  ELSE IF answer = "auth/weak-password"
  THEN CallThrows("Password is too weak. Please choose a stronger password.", TRUE)
  ELSE CallThrows("Registration failed. Please try again.", TRUE)

\* login saving a signed-out session when Firebase rejects
loginSavingOnFailure(email, answer) ==
  IF answer = "ok" THEN CallReturns(LoginSession(email, FALSE))
  ELSE [threw |-> TRUE, message |-> "Login failed.", contacted |-> TRUE, saved |-> TRUE,
        session |-> [LoginSession(email, FALSE) EXCEPT !.isAuthenticated = FALSE]]

\* AuthService.login(credentials)
login(email, answer) ==
  IF answer = "ok" THEN CallReturns(LoginSession(email, FALSE))
  ELSE IF answer = "auth/user-not-found"
  THEN CallThrows("No account found with this email address.", TRUE)
  ELSE IF answer = "auth/wrong-password"
  THEN CallThrows("Incorrect password. Please try again.", TRUE)
  ELSE CallThrows("Login failed. Please check your credentials and try again.", TRUE)

\* AuthService.googleAuth(isSignup)
googleAuth(isSignup, answer) ==
  IF answer = "ok" THEN CallReturns(LoginSession(GoogleEmail, isSignup))
  ELSE IF answer = "auth/popup-closed-by-user"
  THEN CallThrows("Sign-in was cancelled. Please try again.", TRUE)
  ELSE CallThrows("Google sign-in failed. Please try again.", TRUE)

ItemInit ==
  /\ sessionItem = NoItem
  /\ lastWrite = [by |-> "none"]
  /\ lastGet = NoGet
  /\ lastAuthCall = NoAuthCall

\* AuthService.saveSession(session)
SaveSession ==
  /\ \E session \in Sessions :
       /\ sessionItem' = Stringify(session)
       /\ lastWrite' = [by |-> "saveSession", session |-> session]
  /\ lastGet' = NoGet
  /\ UNCHANGED lastAuthCall
  /\ UNCHANGED nonItemVars

\* AuthService.clearSession()
ClearSession ==
  /\ sessionItem' = NoItem
  /\ lastWrite' = [by |-> "clearSession"]
  /\ lastGet' = NoGet
  /\ UNCHANGED lastAuthCall
  /\ UNCHANGED nonItemVars

\* the item is written from outside AuthService
ForeignWrite ==
  /\ \E text \in ForeignTexts :
       /\ sessionItem' = text
       /\ lastWrite' = [by |-> "foreign", text |-> text]
  /\ lastGet' = NoGet
  /\ UNCHANGED lastAuthCall
  /\ UNCHANGED nonItemVars

\* AuthService.getCurrentSession()
GetCurrentSession ==
  /\ LET got == getCurrentSessionOf(sessionItem)
     IN /\ sessionItem' = got.item
        /\ lastGet' = [called |-> TRUE, returned |-> got.returned,
                       calls |-> IF lastGet.called THEN 2 ELSE 1]
  /\ UNCHANGED <<lastWrite, lastAuthCall>>
  /\ UNCHANGED nonItemVars

\* a call's outcome applied: saveSession on the returning path
Settle(op, failed, outcome) ==
  /\ sessionItem' = IF outcome.saved THEN Stringify(outcome.session) ELSE sessionItem
  /\ lastAuthCall' = [op |-> op, failed |-> failed, threw |-> outcome.threw,
                      contacted |-> outcome.contacted, saved |-> outcome.saved,
                      changed |-> sessionItem' # sessionItem]
  /\ lastWrite' = IF outcome.saved
                  THEN [by |-> "saveSession", session |-> outcome.session]
                  ELSE lastWrite
  /\ lastGet' = IF outcome.saved THEN NoGet ELSE lastGet
  /\ UNCHANGED nonItemVars

ServiceSignup ==
  \E email \in Emails, passwordsMatch \in BOOLEAN, answer \in SignupAnswers :
    Settle(IF passwordsMatch THEN "signup" ELSE "signup mismatch",
           ~passwordsMatch \/ answer # "ok", signup(email, passwordsMatch, answer))

ServiceLoginCall ==
  \E email \in Emails, answer \in LoginAnswers :
    Settle("login", answer # "ok", login(email, answer))

ServiceGoogleAuth ==
  \E isSignup \in BOOLEAN, answer \in PopupAnswers :
    Settle("googleAuth", answer # "ok", googleAuth(isSignup, answer))

ItemNext ==
  \/ SaveSession \/ ClearSession \/ ForeignWrite \/ GetCurrentSession
  \/ ServiceSignup \/ ServiceLoginCall \/ ServiceGoogleAuth

----------------------------------------------------------------------------
\* Specifications

\* the components a specification does not run stay in their initial state
AuthIdle == AuthInit /\ currentRoute = defaultRoute
ProcIdle == ProcInit /\ images = <<>>
StatIdle == StatInit /\ mask = <<0>>
HeatIdle ==
  /\ HeatInit /\ width = 1 /\ height = 1
  /\ \A i \in DOMAIN overlayData : ~isPolypRegion(overlayData[i])
UploadIdle == UploadInit /\ UploadFresh
SrvIdle == SrvInit /\ \A r \in Requests : reqUpload[r] = Upload(TRUE, 512, 512, TRUE, TRUE, TRUE, TRUE)

OvlIdle ==
  /\ origPixel = <<0, 0, 0>>
  /\ maskCell = 0
  /\ overlayPixel = <<>>
  /\ seed = "none"
  /\ ovlPc = "image"

InitRisk == RiskInit /\ AuthIdle /\ UploadIdle /\ StatIdle /\ HeatIdle /\ SrvIdle /\ TfInit /\ RecInit /\ OvlIdle /\ ItemInit

InitAuth == AuthInit /\ RiskInit /\ UploadIdle /\ StatIdle /\ HeatIdle /\ SrvIdle /\ TfInit /\ RecInit /\ OvlIdle /\ ItemInit

UploadUnused ==
  /\ uploadImages = <<>> /\ timers = <<>> /\ nextId = 1 /\ resetKey = 0 /\ resetIds = {}
  /\ lastEvent = Event("none", 0, 0, 0)

InitProc == ProcInit /\ RiskInit /\ AuthIdle /\ StatIdle /\ HeatIdle /\ SrvIdle /\ TfInit /\ UploadUnused /\ RecInit /\ OvlIdle /\ ItemInit

InitStat == StatInit /\ RiskInit /\ AuthIdle /\ UploadIdle /\ HeatIdle /\ SrvIdle /\ TfInit /\ RecInit /\ OvlIdle /\ ItemInit

InitHeat == HeatInit /\ RiskInit /\ AuthIdle /\ UploadIdle /\ StatIdle /\ SrvIdle /\ TfInit /\ RecInit /\ OvlIdle /\ ItemInit

InitSrv == SrvInit /\ RiskInit /\ AuthIdle /\ UploadIdle /\ StatIdle /\ HeatIdle /\ TfInit /\ RecInit /\ OvlIdle /\ ItemInit

InitTf == TfInit /\ RiskInit /\ AuthIdle /\ UploadIdle /\ StatIdle /\ HeatIdle /\ SrvIdle /\ RecInit /\ OvlIdle /\ ItemInit

InitUpload == UploadInit /\ RiskInit /\ AuthIdle /\ StatIdle /\ HeatIdle /\ SrvIdle /\ TfInit /\ RecInit /\ OvlIdle /\ ItemInit

InitRec == RecInit /\ RiskInit /\ AuthIdle /\ UploadIdle /\ StatIdle /\ HeatIdle /\ SrvIdle /\ TfInit /\ OvlIdle /\ ItemInit

InitOvl == OvlInit /\ RecInit /\ RiskInit /\ AuthIdle /\ UploadIdle /\ StatIdle /\ HeatIdle /\ SrvIdle /\ TfInit /\ ItemInit

InitItem == ItemInit /\ RecInit /\ RiskInit /\ AuthIdle /\ UploadIdle /\ StatIdle /\ HeatIdle /\ SrvIdle /\ TfInit /\ OvlIdle

SpecRisk == InitRisk /\ [][RiskNext]_vars

SpecAuth == InitAuth /\ [][AuthNext]_vars

SpecProc == InitProc /\ [][ProcNext]_vars

SpecStat == InitStat /\ [][StatNext]_vars

SpecHeat == InitHeat /\ [][HeatNext]_vars

SpecSrv == InitSrv /\ [][SrvNext]_vars

SpecTf == InitTf /\ [][TfNext]_vars

SpecUpload == InitUpload /\ [][UploadNext]_vars

SpecRec == InitRec /\ [][RecNext]_vars

SpecOvl == InitOvl /\ [][OvlNext]_vars

\* setInterval keeps calling the callback until clearInterval
SpecUploadTimer == InitUpload /\ [][UploadTimerNext]_vars /\ WF_vars(SlowTimerTick)

SpecItem == InitItem /\ [][ItemNext]_vars

\* every awaited request, timer and image load settles, and the continuation
\* of processImages then runs
SpecProcFair ==
  /\ InitProc /\ [][ProcNext]_vars
  /\ WF_vars(BeginImage) /\ WF_vars(SegmentReturns) /\ WF_vars(HandleApiResult)
  /\ WF_vars(SimulateReturns) /\ WF_vars(FinishProcessing)

\* DetectionPage with its ImageUpload: the analysis run and the upload
\* callbacks in any order
QuickTimerTick == TimerTickBy(ProgressSteps, FALSE)

PageNext == ProcNext \/ SelectFewFiles \/ QuickTimerTick \/ RemoveUnrecorded

SpecPage == InitUpload /\ [][PageNext]_vars

\* React renders what is pending, and signOut settles
SpecAuthFair == InitAuth /\ [][AuthNext]_vars /\ WF_vars(Render) /\ WF_vars(LogoutSettle)

SpecTfLogin == InitTf /\ [][TfLoginNext]_vars

----------------------------------------------------------------------------
C2_DetectionOnlyAfter2FA ==
  rendered = "DetectionPage" =>
    /\ user # NoUser
    /\ ~user.needs2FASetup
    /\ ~user.needs2FAVerification

\* C3: a requiresAuth route is never rendered while the user is null or not
\* authenticated; the Router run that meets this case sets the current route
\* to '/login' and returns nothing.
C3_ProtectedNeedsAuth ==
  /\ [](rendered \in ProtectedComponents => IsAuthenticated(user))
  /\ [][(/\ pendingRender
         /\ currentRoute \in DOMAIN routes
         /\ routes[currentRoute].requiresAuth
         /\ ~IsAuthenticated(user))
        => (currentRoute' = "/login" /\ rendered' = "null")]_vars

\* after a logout, browser-back to /detection: the Router has just redirected
C3_Witness ==
  /\ rendered = "null" /\ pendingRender /\ ~isLoading
  /\ user = NoUser
  /\ currentRoute = "/login"
  /\ histIdx > 1 /\ history[histIdx - 1] = "/detection"

\* the status DetectionPage's list holds for an image
StatusOf(id) ==
  IF \E k \in DOMAIN images : images[k].id = id
  THEN images[CHOOSE k \in DOMAIN images : images[k].id = id].status
  ELSE "absent"

ResultsFor(list, id) == {k \in DOMAIN list : list[k].id = id}

ErrorImages == {k \in DOMAIN images : images[k].status = "error"}

\* C4: every ready image is attempted exactly once in list order; a success
\* contributes exactly one result, in order; a failed image is marked 'error'
\* and the loop goes on to the images after it; at the end, results plus images
\* marked 'error' equal the ready images.
C4_EveryImageSettled ==
  /\ Len(attemptLog) <= Len(readyImages)
  /\ \A k \in DOMAIN attemptLog :
       /\ attemptLog[k].id = readyImages[k].id
       /\ (attemptLog[k].failed /\ attemptLog[k].ended # "pending") =>
            /\ attemptLog[k].ended = "error"
            /\ StatusOf(attemptLog[k].id) = "error"
            /\ ResultsFor(results, attemptLog[k].id) = {}
       /\ (~attemptLog[k].failed /\ attemptLog[k].ended # "pending") =>
            /\ attemptLog[k].ended = "result"
            /\ Cardinality(ResultsFor(results, attemptLog[k].id)) = 1
  /\ \A j, k \in DOMAIN results :
       j < k => \E a, b \in DOMAIN attemptLog :
                  a < b /\ attemptLog[a].id = results[j].id /\ attemptLog[b].id = results[k].id
  /\ (pc = "idle" /\ readyImages # <<>>) =>
       /\ Len(attemptLog) = Len(readyImages)
       /\ Len(results) + Cardinality(ErrorImages) = Len(readyImages)

\* C5: with the API reported available, an image whose segmentation request
\* failed (network error, non-OK status, no results, status 'error', overlay or
\* original missing) yields no analysis result, from the API or from the mock,
\* and is marked 'error'.
C5_ApiFailureIsError ==
  \A k \in DOMAIN attemptLog :
    (useAPI /\ attemptLog[k].requestFailed /\ attemptLog[k].ended # "pending") =>
      /\ attemptLog[k].ended = "error"
      /\ StatusOf(attemptLog[k].id) = "error"
      /\ ResultsFor(results, attemptLog[k].id) = {}
      /\ ResultsFor(analysisResults, attemptLog[k].id) = {}

\* a finished API run: the first image's request failed, the second succeeded
C5_Witness ==
  /\ pc = "idle" /\ useAPI /\ apiAvailable = "true"
  /\ Len(attemptLog) >= 2
  /\ attemptLog[1].requestFailed /\ attemptLog[1].ended = "error"
  /\ attemptLog[2].ended = "result"
  /\ Len(analysisResults) >= 1

\* C6: for every mask, the tier the client derives from the reported
\* cancer_percentage equals the tier the service derives from the
\* full-precision coverage.
C6_SameTierBothSides ==
  statPc = "classified" => clientRisk = serviceRisk

Abs(x) == IF x < 0 THEN -x ELSE x

SeedPixels == {i \in DOMAIN overlayData : isPolypRegion(overlayData[i])}

\* the chamfer distance between two pixels: diagonal steps along the shorter
\* extent, axis steps for the rest
ChamferBetween(i, j) ==
  LET dx == Abs((i % width) - (j % width))
      dy == Abs((i \div width) - (j \div width))
  IN DiagonalStep * Min2(dx, dy) + AxisStep * Abs(dx - dy)

\* the chamfer distance of pixel i to the nearest seed, capped at maxDist
ChamferDistance(i) ==
  IF SeedPixels = {} THEN maxDist
  ELSE LET nearest == CHOOSE s \in SeedPixels :
                        \A t \in SeedPixels : ChamferBetween(i, s) <= ChamferBetween(i, t)
       IN Min2(ChamferBetween(i, nearest), maxDist)

\* C7: after the forward and the backward pass every pixel's distanceMap value
\* is its chamfer distance (axis 1, diagonal 1.414) to the nearest seed pixel,
\* capped at maxDist = 80; seed pixels have 0.
C7_DistanceMapIsChamfer ==
  heatPc = "backward" =>
    \A i \in DOMAIN distanceMap : distanceMap[i] = ChamferDistance(i)

\* the events of a request that runs the whole pipeline
FullRun ==
  <<<<"start", "validate">>, <<"end", "validate">>,
    <<"start", "preprocess">>, <<"end", "preprocess">>,
    <<"start", "infer">>, <<"end", "infer">>,
    <<"start", "postprocess">>, <<"end", "postprocess">>>>

ValidationEnded(r) == Len(stageLog[r]) >= 2

\* C8: for each uploaded image the stages run strictly in the order validate,
\* preprocess, infer, postprocess, each starting only after the one before has
\* ended; an image the validator rejects never starts preprocessing or
\* inference and gets an error result.
C8_StagesInOrder ==
  \A r \in Requests :
    /\ Len(stageLog[r]) <= Len(FullRun)
    /\ stageLog[r] = SubSeq(FullRun, 1, Len(stageLog[r]))
    /\ RejectionCauses(reqUpload[r]) # {} =>
         /\ \A k \in 1..Len(stageLog[r]) : stageLog[r][k][2] = "validate"
         /\ ValidationEnded(r) => response[r].status = "error"

\* one image went through all four stages while another was rejected
C8_Witness ==
  \E r, q \in Requests :
    /\ stageLog[r] = FullRun /\ response[r].status = "success"
    /\ RejectionCauses(reqUpload[q]) # {} /\ ValidationEnded(q)

C11_SixDigitsExactly ==
  lastVerify.called =>
    LET sixDigits == Len(codeArg) = 6 /\ \A k \in 1..Len(codeArg) : codeArg[k] \in Digits
    IN /\ lastVerify.isValid <=> sixDigits
       /\ ~sixDigits =>
            /\ lastVerify.remainingAttempts = "2"
            /\ ~lastVerify.storeChanged

\* a seven-digit code was refused and the stored setup data is still there
C11_Witness ==
  /\ lastVerify.called /\ ~lastVerify.isValid /\ lastVerify.isSetup
  /\ Len(codeArg) = 7 /\ \A k \in 1..7 : codeArg[k] \in Digits
  /\ lastVerify.email \in setupData

\* C17: once verifyCode with isSetup = true has succeeded for an email,
\* isSetupRequired(email) is false until disable2FA(email); a login for that
\* email made in between returns needs2FASetup = false and
\* needs2FAVerification = true; a verifyCode call with isSetup = false never
\* changes isSetupRequired.
C17_SetupSticks ==
  /\ \A email \in setupVerified : ~isSetupRequired(email)
  /\ (lastLogin.called /\ ~lastLogin.threw /\ lastLogin.afterSetup) =>
       (~lastLogin.session.needs2FASetup /\ lastLogin.session.needs2FAVerification)
  /\ (lastVerify.called /\ ~lastVerify.isSetup) => ~lastVerify.requiredChanged

\* a login after a verified setup, and a valid verification without isSetup
\* for an email whose setup is still required
C17_Witness ==
  /\ lastLogin.called /\ ~lastLogin.threw /\ lastLogin.afterSetup
  /\ lastVerify.called /\ ~lastVerify.isSetup /\ lastVerify.isValid
  /\ isSetupRequired(lastVerify.email)

\* C12: whenever a result made by simulateModelInference exists, apiAvailable
\* is false: the health check has completed and reported the backend
\* unavailable; no mock result is produced while the check is pending or after
\* it reported the API available.
C12_MockOnlyWhenUnavailable ==
  \A k \in DOMAIN results : results[k].source = "mock" => apiAvailable = "false"

\* C13: right after handleReset and the reset effect both lists are empty,
\* analysisResults is empty, processingProgress is 0 and isProcessing is false;
\* afterwards no image uploaded before the reset is in either list again,
\* whatever the intervals still running do.
C13_ResetClearsForGood ==
  /\ lastEvent.op = "reset" =>
       /\ images = <<>> /\ uploadImages = <<>> /\ analysisResults = <<>>
       /\ processingProgress = 0 /\ ~isProcessing
  /\ \A k \in DOMAIN uploadImages : uploadImages[k].id \notin resetIds
  /\ \A k \in DOMAIN images : images[k].id \notin resetIds

\* after a reset with results on screen, an interval of an image uploaded
\* before it has ticked
C13_Witness ==
  /\ resetKey > 0 /\ lastEvent.op = "tick"
  /\ \E id \in resetIds : timers[id].progress > 0
  /\ images = <<>> /\ uploadImages = <<>>

\* C14: ImageUpload never holds more than maxImages images, whatever the
\* selections, drops, removals, ticks and resets; a selection that would
\* exceed the limit adds no image at all.
C14_AtMostMaxImages ==
  /\ Len(uploadImages) <= maxImages
  /\ (lastEvent.op = "select" /\ lastEvent.held + lastEvent.files > maxImages) =>
       lastEvent.added = 0

\* a selection of two files was refused while one image was held
C14_Witness ==
  /\ lastEvent.op = "select" /\ lastEvent.held = 1 /\ lastEvent.files = 2
  /\ Len(uploadImages) = 1

\* C15: getRecommendations never rejects; on a network error, a non-OK
\* response or an empty recommendation list it returns the hardcoded fallback,
\* which has an 'urgent' entry exactly when riskLevel is 'High Risk' or
\* 'Medium Risk' and has only 'routine' entries otherwise.
C15_RecommendationsNeverReject ==
  recResult # NoRecResult =>
    LET failed == recOutcome.kind # "list" \/ recOutcome.recommendations = <<>>
        elevated == recRiskLevel \in {"High Risk", "Medium Risk"}
        types == {recResult.value[k] : k \in DOMAIN recResult.value}
    IN /\ recResult.settled = "resolved"
       /\ failed =>
            /\ recResult.fallback
            /\ ("urgent" \in types) <=> elevated
            /\ ~elevated => types = {"routine"}

\* an empty list came back for a low-risk image and the routine fallback was
\* returned
C15_Witness ==
  /\ recResult.settled = "resolved" /\ recResult.fallback
  /\ recOutcome.kind = "list" /\ recOutcome.recommendations = <<>>
  /\ recRiskLevel = "Low Risk"
  /\ recResult.value = <<"routine", "routine">>

\* the components of the public routes
PublicComponents == {routes[p].component : p \in {p \in DOMAIN routes : routes[p].isPublic}}

C18_PublicOnlyUnauthenticated ==
  /\ [](rendered \in PublicComponents => ~IsAuthenticated(user))
  /\ [][(/\ pendingRender
         /\ currentRoute \in DOMAIN routes
         /\ routes[currentRoute].isPublic
         /\ IsAuthenticated(user))
        => (currentRoute' = "/detection" /\ rendered' = "null")]_vars

\* an authenticated user went back to /login: the Router has just redirected
C18_Witness ==
  /\ rendered = "null" /\ pendingRender /\ ~isLoading
  /\ IsAuthenticated(user)
  /\ currentRoute = "/detection"
  /\ histIdx > 1 /\ history[histIdx - 1] = "/login"

\* over every distance a pixel can be given, in thousandths up to maxDist:
\* the five values named, no increase, and no step larger than a band's slope
AlphaIsNonIncreasing ==
  /\ Tint(0).alpha * 10 = 7 * AlphaScale
  /\ Tint(BandWidth).alpha * 2 = AlphaScale
  /\ Tint(2 * BandWidth).alpha * 100 = 35 * AlphaScale
  /\ Tint(3 * BandWidth).alpha * 5 = AlphaScale
  /\ Tint(maxDist).alpha * 20 = AlphaScale
  /\ \A d \in 1..maxDist :
       /\ Tint(d).alpha <= Tint(d - 1).alpha
       /\ Tint(d - 1).alpha - Tint(d).alpha <= 4

\* C19: alpha is a non-increasing function of the normalized distance, 0.7 at
\* 0, 0.5 at 0.25, 0.35 at 0.5, 0.2 at 0.75 and 0.05 at 1, without a jump
\* between the bands; so in the heatmap drawn a pixel farther from the detected
\* region is never tinted more strongly than a nearer one.
C19_FartherNeverStronger ==
  /\ AlphaIsNonIncreasing
  /\ heatPc = "blended" =>
       \A i, j \in DOMAIN tintMap :
         ChamferDistance(i) <= ChamferDistance(j) => tintMap[i].alpha >= tintMap[j].alpha

\* C20: the heatmap's seed pixels are exactly the pixels where the mask is 1:
\* whatever the original pixel, the overlay pixel is classified as polyp
\* region if and only if its mask cell is 1.
C20_SeedIffMask ==
  ovlPc = "classified" => (seed <=> maskCell = 1)

\* the most ticks an interval can take: every tick adds at least 10
MaxTicks == 10

\* the image with this id is in ImageUpload's list, uploading
Uploading(id) ==
  \E k \in DOMAIN uploadImages :
    uploadImages[k].id = id /\ uploadImages[k].status = "uploading"

C21_TimerBounded ==
  /\ \A id \in DOMAIN timers :
       /\ timers[id].fired <= MaxTicks
       /\ timers[id].fired = MaxTicks => timers[id].cleared
       /\ timers[id].cleared =>
            \A k \in DOMAIN uploadImages :
              uploadImages[k].id = id =>
                uploadImages[k].status = "ready" /\ uploadImages[k].progress = 100
  /\ \A k \in DOMAIN uploadImages : uploadImages[k].progress \in 0..100

C21_ProgressGrows ==
  \A k \in DOMAIN uploadImages : \A j \in DOMAIN uploadImages' :
    uploadImages'[j].id = uploadImages[k].id =>
      uploadImages'[j].progress >= uploadImages[k].progress

\* C21: an accepted file's interval fires at most 10 times and is then
\* cleared; the image's progress never decreases and never exceeds 100; an
\* image still in the list when its interval ends is 'ready' with progress
\* 100; and no image stays 'uploading' forever, whatever is added or removed.
C21_UploadEnds ==
  /\ []C21_TimerBounded
  /\ [][C21_ProgressGrows]_vars
  /\ \A id \in 1..MaxTimerIds : Uploading(id) ~> ~Uploading(id)

\* an interval ended on its tenth tick while another image was removed
C21_Witness ==
  \E id \in DOMAIN timers :
    /\ timers[id].fired = MaxTicks /\ timers[id].cleared
    /\ \E k \in DOMAIN uploadImages : uploadImages[k].id = id
    /\ nextId > Len(uploadImages) + 1

\* the step pushes an API result
PushesApiResult ==
  /\ Len(results') = Len(results) + 1
  /\ results'[Len(results')].source = "api"

\* C22: in API mode a result is created only from a response with status
\* 'success' that carries overlay, original and statistics, and its riskScore
\* is the reported cancer_percentage (both on the percent scale here); a
\* response without statistics is never presented as a 0 % 'Safe' result.
C22_ResultOnlyFromFullResponse ==
  [][PushesApiResult =>
       /\ ResultUsable(apiResult)
       /\ apiResult.statistics.present
       /\ results'[Len(results')].riskScore = apiResult.statistics.cancer_percentage]_vars

\* C23: a failed signup (passwords differing, Firebase then not contacted, or
\* Firebase rejecting), a failed login and a failed googleAuth each throw and
\* leave the stored session as it was: saveSession is not called.
C23_FailureLeavesSession ==
  (lastAuthCall.op # "none" /\ lastAuthCall.failed) =>
    /\ lastAuthCall.threw
    /\ ~lastAuthCall.saved
    /\ ~lastAuthCall.changed
    /\ lastAuthCall.op = "signup mismatch" => ~lastAuthCall.contacted

\* a login failed while a session was stored
C23_Witness ==
  /\ lastAuthCall.op = "login" /\ lastAuthCall.failed /\ lastAuthCall.threw
  /\ sessionItem # NoItem /\ ~Unparseable(sessionItem)

\* C24 as stated: getCurrentSession after saveSession(s) returns a session
\* equal to s; after clearSession it returns null; and when the stored value
\* is not parseable it returns null and removes the stored value, in the
\* first call and in every later one.
C24_GetAfterWrite ==
  lastGet.called =>
    /\ lastWrite.by = "saveSession" => lastGet.returned = lastWrite.session
    /\ lastWrite.by = "clearSession" => lastGet.returned = NoUser
    /\ (lastWrite.by = "foreign" /\ Parse(lastWrite.text).threw) =>
         lastGet.returned = NoUser /\ sessionItem = NoItem

\* C24 amended: as stated, except that a stored empty string, which is not
\* parseable either, is answered with null and left where it is.
C24_GetAfterWriteAmended ==
  lastGet.called =>
    /\ lastWrite.by = "saveSession" => lastGet.returned = lastWrite.session
    /\ lastWrite.by = "clearSession" => lastGet.returned = NoUser
    /\ (lastWrite.by = "foreign" /\ Parse(lastWrite.text).threw) =>
         /\ lastGet.returned = NoUser
         /\ sessionItem = IF lastWrite.text = <<>> THEN <<>> ELSE NoItem

\* a truncated object was stored and getCurrentSession was called twice
C24_Witness ==
  /\ lastGet.called /\ lastGet.calls = 2 /\ lastGet.returned = NoUser
  /\ lastWrite.by = "foreign" /\ lastWrite.text = <<"{", "ann@x.org">>
  /\ sessionItem = NoItem

\* C25: every processImages run eventually ends with isProcessing = false and
\* currentProcessingImage = '', in API mode and in mock mode, every request
\* and every image load having completed, successfully or with an error.
C25_RunEnds ==
  isProcessing ~> (~isProcessing /\ currentProcessingImage = 0)

\* C26: a status that processImages has set on an image of DetectionPage's
\* list, 'processing' while the image is being attempted and 'error' after it
\* failed, is not overwritten by what ImageUpload reports about other images,
\* however the run and the callbacks interleave.
C26_RunStatusKept ==
  \A k \in DOMAIN attemptLog : \A j \in DOMAIN images :
    images[j].id = attemptLog[k].id =>
      /\ attemptLog[k].ended = "pending" => images[j].status = "processing"
      /\ attemptLog[k].ended = "error" => images[j].status = "error"

\* C27: after handleLogout the stored session is eventually removed, whether
\* signOut succeeds or fails, so that a later page load does not restore the
\* user.
C27_LogoutClearsSession ==
  logoutPending ~> sessionStore = NoUser

====
